---- MODULE Spec2Model ----
(***************************************************************************)
(* A model of the pairwise ranking pipeline: pair selection                *)
(* (Pipeline/selection.py, Pipeline/make_pairs.py), the per-pair           *)
(* load / compare / analyse loop (Pipeline/make_pairs.py, Domain/pair.py), *)
(* and the round aggregation (Pipeline/round_analysis.py, Pipeline/poe.py).*)
(*                                                                         *)
(* Conventions.                                                            *)
(*  - Python's Optional[T] is a sequence: <<>> is None, <<x>> is x.        *)
(*  - Candidates are the indices 0..n-1; candidate i is named by i (names  *)
(*    are unique).  A directed pair is the tuple <<i, j>>.                 *)
(*  - CRIT scores are integers in hundredths (the prompt asks for floats   *)
(*    rounded to two decimals); products and sums of products are integers *)
(*    in units of 1e-4, so round(x, 4) is exact on them.                   *)
(*  - A ridge term (1e-6, 1e-9) is a positive infinitesimal eps: a matrix  *)
(*    entry is a polynomial in eps with integer coefficients, and two      *)
(*    quotients over the same positive denominator compare by the lowest   *)
(*    coefficient in which their numerators differ.                        *)
(***************************************************************************)
EXTENDS Integers, Sequences, FiniteSets, TLC

VARIABLES
    n,              \* len(rnd.candidates)
    K,              \* the budget: None or Some(k)
    pc,             \* position in main / ensure_pairs
    picked,         \* ensure_pairs: the set picked
    si,             \* ensure_pairs: the star-seed loop variable i
    chosen,         \* ensure_pairs: the list chosen
    candidates,          \* rnd.candidates: records of gt_rank, gt_score
    disk,           \* the pair file of each directed pair
    roundFiles,     \* the round files: name -> None or Some(content)
    pairs,          \* ensure_pairs: the list pairs
    cur,            \* ensure_pairs: the Pair p of the current iteration
    has_artifacts,  \* ensure_pairs: has_artifacts
    has_analysis,   \* ensure_pairs: has_analysis
    attempt,        \* ensure_pairs: the retry loop variable
    roundAnalysis,  \* rnd.analysis
    run,            \* the number of the invocation of main
    faults,         \* file writes that have failed so far
    seen,           \* history: the file each pair's load found, per invocation
    attempts,       \* history: the outcome of each compare call, per pair
    prev,           \* history: rnd.analysis at the end of the previous invocation
    gn,             \* next_pair_greedy called alone: n
    gchosen,        \* next_pair_greedy called alone: chosen
    gresult,        \* next_pair_greedy called alone: the result
    aggTable,       \* aggregators called alone: the match table
    aggResult,      \* aggregators called alone: the results
    callArgs,       \* another function called alone: its arguments
    callResult      \* another function called alone: its result

selVars == <<n, K, pc, picked, si, chosen>>
runVars == <<candidates, disk, roundFiles, pairs, cur, has_artifacts, has_analysis,
             attempt, roundAnalysis, run, faults, seen, attempts, prev>>
greedyVars == <<gn, gchosen, gresult>>
aggVars == <<aggTable, aggResult>>
callVars == <<callArgs, callResult>>
vars == <<selVars, runVars, greedyVars, aggVars, callVars>>

(***************************************************************************)
(* Bounds of the model.                                                    *)
(***************************************************************************)
MaxSelN == 4        \* candidates in the selection specification
MaxGreedyN == 3     \* candidates when next_pair_greedy is called alone
MaxCand == 3        \* candidates in a round of the orchestrator
MaxFaults == 1      \* file writes that fail in one behaviour
MaxRuns == 2        \* invocations of main on the same round folder
MaxPairs == 3       \* pairs chosen in a round of the orchestrator
MaxAggN == 3        \* candidates when the aggregators are called alone

None == <<>>
Some(x) == <<x>>
IsNone(o) == o = <<>>
Val(o) == o[1]

(***************************************************************************)
(* Plain helpers.                                                          *)
(***************************************************************************)
Range(m) == 0..(m - 1)

\* [(i, j) for i in range(n) for j in range(n) if i != j], as a set
AllPairs(m) == {p \in Range(m) \X Range(m) : p[1] # p[2]}

\* the position of (i, j) in the iteration "for i in range(n): for j in range(n)"
PairRank(m, p) == p[1] * m + p[2]

RECURSIVE SortPairs(_, _)
SortPairs(m, S) ==
    IF S = {} THEN <<>>
    ELSE LET first == CHOOSE p \in S : \A q \in S : PairRank(m, p) <= PairRank(m, q)
         IN  <<first>> \o SortPairs(m, S \ {first})

\* only the pairs with i < j
FullMatrixUpper(m) == SortPairs(m, {p \in AllPairs(m) : p[1] < p[2]})

\* the list comprehension of make_pairs.py line 31
FullMatrix(m) == SortPairs(m, AllPairs(m))

SeqToSet(s) == {s[k] : k \in 1..Len(s)}

(***************************************************************************)
(* Tuples built element by element: <<F(1), ..., F(m)>>.                   *)
(***************************************************************************)
\* F(v), with v computed once: a local variable of the code
Bind(v, F(_)) == CHOOSE y \in {F(x) : x \in {v}} : TRUE

RECURSIVE TabFrom(_, _, _)
TabFrom(F(_), k, m) == IF k > m THEN <<>> ELSE <<F(k)>> \o TabFrom(F, k + 1, m)
Tab(F(_), m) == TabFrom(F, 1, m)

(***************************************************************************)
(* Polynomials in eps of degree <= d, as tuples of d+1 coefficients        *)
(* (constant term first).                                                  *)
(***************************************************************************)
PConst(c, d) == Tab(LAMBDA k : IF k = 1 THEN c ELSE 0, d + 1)
PEntry(c, onDiag, d) ==
    Tab(LAMBDA k : IF k = 1 THEN c ELSE IF k = 2 /\ onDiag THEN 1 ELSE 0, d + 1)
PAdd(p, q) == Bind(<<p, q>>, LAMBDA a : Tab(LAMBDA k : a[1][k] + a[2][k], Len(a[1])))
PSub(p, q) == Bind(<<p, q>>, LAMBDA a : Tab(LAMBDA k : a[1][k] - a[2][k], Len(a[1])))
PScale(c, p) == Bind(<<c, p>>, LAMBDA a : Tab(LAMBDA k : a[1] * a[2][k], Len(a[2])))

RECURSIVE PConv(_, _, _, _)
PConv(p, q, k, a) == IF a > k THEN 0 ELSE p[a] * q[k + 1 - a] + PConv(p, q, k, a + 1)
PMul(p, q) == Bind(<<p, q>>, LAMBDA a : Tab(LAMBDA k : PConv(a[1], a[2], k, 1), Len(a[1])))

\* the lowest index at which p and q differ, 0 when they are equal
RECURSIVE PFirstDiff(_, _, _)
PFirstDiff(p, q, k) ==
    IF k > Len(p) THEN 0 ELSE IF p[k] # q[k] THEN k ELSE PFirstDiff(p, q, k + 1)

\* p(eps) > q(eps) for every small enough eps > 0
PGreater(p, q) ==
    Bind(<<p, q>>, LAMBDA a :
        Bind(PFirstDiff(a[1], a[2], 1), LAMBDA k : k # 0 /\ a[1][k] > a[2][k]))

RemoveAt(s, k) == SubSeq(s, 1, k - 1) \o SubSeq(s, k + 1, Len(s))

\* determinant of the submatrix of M on the rows `rows` and columns `cols`
\* (Laplace expansion along the first row); M[r][c] is a polynomial and
\* rows and columns are numbered from 1
RECURSIVE PDet(_, _, _, _)
RECURSIVE PDetRow(_, _, _, _, _)
PDet(M, rows, cols, d) ==
    IF Len(rows) = 0 THEN PConst(1, d) ELSE PDetRow(M, rows, cols, d, 1)
PDetRow(M, rows, cols, d, k) ==
    IF k > Len(cols) THEN PConst(0, d)
    ELSE LET term == PMul(M[rows[1]][cols[k]],
                          PDet(M, Tail(rows), RemoveAt(cols, k), d))
             rest == PDetRow(M, rows, cols, d, k + 1)
         IN  IF k % 2 = 1 THEN PAdd(rest, term) ELSE PSub(rest, term)

IndexSeq(m) == Tab(LAMBDA k : k, m)
Without(m, r) == RemoveAt(IndexSeq(m), r)

\* the adjugate of M (m x m): Adj[r][c] = (-1)^(r+c) det(M without row c, column r)
PAdjugate(M, m, d) ==
    Tab(LAMBDA r : Tab(LAMBDA c :
        LET minor == PDet(M, Without(m, c), Without(m, r), d)
        IN  IF (r + c) % 2 = 0 THEN minor ELSE PScale(-1, minor), m), m)

(***************************************************************************)
(* Pipeline/selection.py                                                   *)
(***************************************************************************)
\* W_tilde^T W_tilde for the rows e_i - e_j of `prs` (a sequence) and the
\* anchor row e_0; candidate i is row and column i + 1
Gram(m, prs) ==
    Tab(LAMBDA r : Tab(LAMBDA c :
        (IF r = 1 /\ c = 1 THEN 1 ELSE 0)
        + (IF r = c
           THEN Cardinality({k \in 1..Len(prs) :
                               prs[k][1] = r - 1 \/ prs[k][2] = r - 1})
           ELSE 0 - Cardinality({k \in 1..Len(prs) :
                                   \/ prs[k] = <<r - 1, c - 1>>
                                   \/ prs[k] = <<c - 1, r - 1>>})), m), m)

\* A = W_tilde^T W_tilde + ridge * I, ridge = eps
Ridged(A, m) ==
    Tab(LAMBDA r : Tab(LAMBDA c : PEntry(A[r][c], r = c, m), m), m)

\* build_A_inv: the numerators of inv(A); the common denominator det(A) is
\* positive because A is positive definite for eps > 0, so np.linalg.inv
\* does not raise and the pinv fallback is not taken
build_A_inv(m, chosen_pairs) ==
    Bind(Gram(m, chosen_pairs), LAMBDA G :
    Bind(Ridged(G, m), LAMBDA A : PAdjugate(A, m, m)))

\* val = A_inv[i, i] + A_inv[j, j] - 2.0 * A_inv[i, j]
GreedyVal(A_inv, i, j) ==
    PSub(PAdd(A_inv[i + 1][i + 1], A_inv[j + 1][j + 1]), PScale(2, A_inv[i + 1][j + 1]))

\* the double loop without the test "(i, j) in chosen"
RECURSIVE GreedyScanNoSkip(_, _, _, _, _)
GreedyScanNoSkip(m, chosenSet, A_inv, k, best) ==
    IF k >= m * m THEN best
    ELSE LET i == k \div m
             j == k % m
         IN  IF i = j
             THEN GreedyScanNoSkip(m, chosenSet, A_inv, k + 1, best)
             ELSE IF (IF IsNone(best) THEN TRUE
                      ELSE PGreater(GreedyVal(A_inv, i, j),
                                    GreedyVal(A_inv, Val(best)[1], Val(best)[2])))
                  THEN GreedyScanNoSkip(m, chosenSet, A_inv, k + 1, Some(<<i, j>>))
                  ELSE GreedyScanNoSkip(m, chosenSet, A_inv, k + 1, best)

\* the double loop with "val >= best_val": the last maximum wins
RECURSIVE GreedyScanLastMax(_, _, _, _, _)
GreedyScanLastMax(m, chosenSet, A_inv, k, best) ==
    IF k >= m * m THEN best
    ELSE LET i == k \div m
             j == k % m
         IN  IF i = j \/ <<i, j>> \in chosenSet
             THEN GreedyScanLastMax(m, chosenSet, A_inv, k + 1, best)
             ELSE IF (IF IsNone(best) THEN TRUE
                      ELSE ~PGreater(GreedyVal(A_inv, Val(best)[1], Val(best)[2]),
                                     GreedyVal(A_inv, i, j)))
                  THEN GreedyScanLastMax(m, chosenSet, A_inv, k + 1, Some(<<i, j>>))
                  ELSE GreedyScanLastMax(m, chosenSet, A_inv, k + 1, best)

\* the double loop of next_pair_greedy from position k of the iteration order
\* on; best is None or the best pair so far.  The first admissible pair
\* always replaces best_val = -1e18: |val| <= 4 / ridge.
RECURSIVE GreedyScan(_, _, _, _, _)
GreedyScan(m, chosenSet, A_inv, k, best) ==
    IF k >= m * m THEN best
    ELSE LET i == k \div m
             j == k % m
         IN  IF i = j \/ <<i, j>> \in chosenSet
             THEN GreedyScan(m, chosenSet, A_inv, k + 1, best)
             ELSE IF (IF IsNone(best) THEN TRUE
                      ELSE PGreater(GreedyVal(A_inv, i, j),
                                    GreedyVal(A_inv, Val(best)[1], Val(best)[2])))
                  THEN GreedyScan(m, chosenSet, A_inv, k + 1, Some(<<i, j>>))
                  ELSE GreedyScan(m, chosenSet, A_inv, k + 1, best)

\* next_pair_greedy(n, chosen): None or Some(<<i, j>>)
next_pair_greedy(m, chosenSet) ==
    Bind(build_A_inv(m, SortPairs(m, chosenSet)), LAMBDA A_inv :
        GreedyScan(m, chosenSet, A_inv, 0, None))

(***************************************************************************)
(* Domain/artifact.py                                                      *)
(***************************************************************************)
\* (r or "").strip().lower() on the strings the model uses
StripLower(s) ==
    CASE s = "None" -> "none"
      [] s = " none " -> "none"
      [] s = " " -> ""
      [] OTHER -> s

\* s.strip() is non-empty
NonBlank(s) == StripLower(s) # ""

\* CRITScore(validity=Score(score=v), reliability=Score(score=r)), in hundredths
Crit(v, r) == [validity |-> v, reliability |-> r]

\* PairArtifacts(): the field defaults of lines 49-67
ArtDefault ==
    [Init_ArgumentA |-> None, Init_ArgumentB |-> None,
     reason_list_init_A |-> <<>>, reason_list_init_B |-> <<>>,
     CRIT_scores_init_A |-> <<>>, CRIT_scores_init_B |-> <<>>,
     moderator_question_for_B |-> <<>>, moderator_question_for_A |-> <<>>,
     answer_list_A |-> <<>>, answer_list_B |-> <<>>,
     reason_list_QA_A |-> <<>>, reason_list_QA_B |-> <<>>,
     CRIT_scores_QA_A |-> <<>>, CRIT_scores_QA_B |-> <<>>]

ArtFields == DOMAIN ArtDefault

\* a sentinel test that accepts the list ["None"] alone
_is_none_reasonsExact(reasons) == reasons = <<"None">>

_is_none_reasons(reasons) ==
    IF Len(reasons) = 0 THEN FALSE
    ELSE \A k \in 1..Len(reasons) : StripLower(reasons[k]) = "none"

_reasons_crits_consistent(reasons, crits) ==
    IF Len(reasons) = Len(crits) THEN TRUE
    ELSE IF _is_none_reasons(reasons) /\ Len(crits) = 0 THEN TRUE
    ELSE FALSE

\* bool(s and s.strip()) for an Optional[str]
ArgPresent(arg) == IF IsNone(arg) THEN FALSE ELSE NonBlank(Val(arg))

Min(a, b) == IF a <= b THEN a ELSE b

\* PairArtifacts.is_complete: every check clears ok, none raises
is_complete(art) ==
    /\ ArgPresent(art.Init_ArgumentA)
    /\ ArgPresent(art.Init_ArgumentB)
    /\ _reasons_crits_consistent(art.reason_list_init_A, art.CRIT_scores_init_A)
    /\ _reasons_crits_consistent(art.reason_list_init_B, art.CRIT_scores_init_B)
    /\ Len(art.answer_list_A) = Len(art.moderator_question_for_A)
    /\ Len(art.answer_list_B) = Len(art.moderator_question_for_B)
    /\ Len(art.reason_list_QA_A) = Len(art.answer_list_A)
    /\ Len(art.answer_list_A) = Len(art.CRIT_scores_QA_A)
    /\ Len(art.reason_list_QA_B) = Len(art.answer_list_B)
    /\ Len(art.answer_list_B) = Len(art.CRIT_scores_QA_B)
    /\ \A k \in 1..Min(Len(art.reason_list_QA_A), Len(art.CRIT_scores_QA_A)) :
          _reasons_crits_consistent(art.reason_list_QA_A[k], art.CRIT_scores_QA_A[k])
    /\ \A k \in 1..Min(Len(art.reason_list_QA_B), Len(art.CRIT_scores_QA_B)) :
          _reasons_crits_consistent(art.reason_list_QA_B[k], art.CRIT_scores_QA_B[k])

(***************************************************************************)
(* Domain/pair_analysis.py                                                 *)
(***************************************************************************)
RECURSIVE SumFrom(_, _)
SumFrom(s, k) == IF k > Len(s) THEN 0 ELSE s[k] + SumFrom(s, k + 1)
SumSeq(s) == Bind(s, LAMBDA t : SumFrom(t, 1))

\* round(a / b, 0) for b > 0: to nearest, a tie to the even neighbour
RoundDiv(a, b) ==
    LET q == a \div b
        r == a % b
    IN  IF 2 * r < b THEN q
        ELSE IF 2 * r > b THEN q + 1
        ELSE IF q % 2 = 0 THEN q ELSE q + 1

\* _make_block: scores in units of 1e-4
_make_block(initial_crits, counter_crits_list) ==
    LET reason(idx) ==
            LET crit == initial_crits[idx]
                pers == crit.validity * crit.reliability
            IN  Bind(IF idx <= Len(counter_crits_list)
                     THEN Tab(LAMBDA c : counter_crits_list[idx][c].validity
                                           * counter_crits_list[idx][c].reliability,
                              Len(counter_crits_list[idx]))
                     ELSE <<>>, LAMBDA cnt_scores :
                Bind(IF Len(cnt_scores) > 0
                     THEN RoundDiv(SumSeq(cnt_scores), Len(cnt_scores))
                     ELSE 0, LAMBDA avg_cnt :
                    [reasonIndex |-> idx - 1,
                     persuasiveness |-> pers,
                     counterReasonsPersuasiveness |-> cnt_scores,
                     counterCRITScore |-> avg_cnt,
                     advantage |-> pers - avg_cnt]))
    IN  Bind(Tab(reason, Len(initial_crits)), LAMBDA reason_res :
            [reasons |-> reason_res,
             sumPersuasiveness |-> SumSeq(Tab(LAMBDA k : reason_res[k].persuasiveness,
                                              Len(reason_res))),
             sumAdvantage |-> SumSeq(Tab(LAMBDA k : reason_res[k].advantage,
                                         Len(reason_res)))])

build_analysis(artifacts) ==
    [reasonForA |-> _make_block(artifacts.CRIT_scores_init_A, artifacts.CRIT_scores_QA_A),
     reasonForB |-> _make_block(artifacts.CRIT_scores_init_B, artifacts.CRIT_scores_QA_B)]

(***************************************************************************)
(* Pair files (Domain/pair.py).  A file is                                 *)
(*   <<"missing">>                 no file at the path                     *)
(*   <<"unreadable">>              not JSON, or JSON that is no object     *)
(*   <<"json", artifacts, analysis>>                                       *)
(* where each of the two keys holds <<"absent">> (no key, or no dict),     *)
(* <<"invalid">> (a dict the model class rejects) or <<"obj", o>> (a dict  *)
(* the class accepts; o maps the keys present to their values).            *)
(***************************************************************************)
MissingFile == <<"missing">>
UnreadableFile == <<"unreadable">>
JsonFile(art, ana) == <<"json", art, ana>>
Absent == <<"absent">>
Invalid == <<"invalid">>
Obj(o) == <<"obj", o>>

\* model_dump(exclude_none=True) of a PairArtifacts: keys holding None are dropped
DumpArtifacts(art) ==
    [f \in {g \in ArtFields :
              IF g \in {"Init_ArgumentA", "Init_ArgumentB"} THEN ~IsNone(art[g]) ELSE TRUE}
        |-> IF f \in {"Init_ArgumentA", "Init_ArgumentB"} THEN Val(art[f]) ELSE art[f]]

\* PairArtifacts.model_validate of an accepted dict: missing keys take the defaults
ValidateArtifacts(o) ==
    [f \in ArtFields |->
        IF f \in DOMAIN o
        THEN (IF f \in {"Init_ArgumentA", "Init_ArgumentB"} THEN Some(o[f]) ELSE o[f])
        ELSE ArtDefault[f]]

\* a save_json that loses the question-and-answer fields of side A
DumpPairNoQA(p) ==
    JsonFile(IF IsNone(p.artifacts) THEN Absent
             ELSE Obj(DumpArtifacts([Val(p.artifacts) EXCEPT
                          !.moderator_question_for_A = <<>>, !.answer_list_A = <<>>,
                          !.reason_list_QA_A = <<>>, !.CRIT_scores_QA_A = <<>>])),
             IF IsNone(p.analysis) THEN Absent ELSE Obj(Val(p.analysis)))

\* Pair.save_json: what json.dumps(model_dump(exclude_none=True)) writes
DumpPair(p) ==
    JsonFile(IF IsNone(p.artifacts) THEN Absent ELSE Obj(DumpArtifacts(Val(p.artifacts))),
             IF IsNone(p.analysis) THEN Absent ELSE Obj(Val(p.analysis)))

\* a load_artifacts that returns the negation of is_complete()
load_artifactsInverted(p, f) ==
    IF f[1] = "missing" THEN <<p.artifacts, FALSE>>
    ELSE IF f[1] = "unreadable" THEN <<p.artifacts, FALSE>>
    ELSE IF f[2][1] = "absent" THEN <<p.artifacts, FALSE>>
    ELSE IF f[2][1] = "invalid" THEN <<p.artifacts, FALSE>>
    ELSE LET art == ValidateArtifacts(f[2][2])
         IN  <<Some(art), ~is_complete(art)>>

\* a load_artifacts that returns True for any artifacts that validate
load_artifactsUnchecked(p, f) ==
    IF f[1] = "missing" THEN <<p.artifacts, FALSE>>
    ELSE IF f[1] = "unreadable" THEN <<p.artifacts, FALSE>>
    ELSE IF f[2][1] = "absent" THEN <<p.artifacts, FALSE>>
    ELSE IF f[2][1] = "invalid" THEN <<p.artifacts, FALSE>>
    ELSE <<Some(ValidateArtifacts(f[2][2])), TRUE>>

\* Pair.load_artifacts on file f: <<self.artifacts afterwards, return value>>
load_artifacts(p, f) ==
    IF f[1] = "missing" THEN <<p.artifacts, FALSE>>
    ELSE IF f[1] = "unreadable" THEN <<p.artifacts, FALSE>>
    ELSE IF f[2][1] = "absent" THEN <<p.artifacts, FALSE>>
    ELSE IF f[2][1] = "invalid" THEN <<p.artifacts, FALSE>>
    ELSE LET art == ValidateArtifacts(f[2][2])
         IN  <<Some(art), is_complete(art)>>

\* Pair.load_analysis on file f: <<self.analysis afterwards, return value>>.
\* Pair defines no analysis_complete: line 70 raises AttributeError after
\* line 69 has assigned self.analysis, and line 71 turns it into False.
load_analysis(p, f) ==
    IF f[1] = "missing" THEN <<p.analysis, FALSE>>
    ELSE IF f[1] = "unreadable" THEN <<p.analysis, FALSE>>
    ELSE IF f[3][1] = "absent" THEN <<p.analysis, FALSE>>
    ELSE IF f[3][1] = "invalid" THEN <<p.analysis, FALSE>>
    ELSE <<Some(f[3][2]), FALSE>>

\* Pair.run_analysis: <<self.analysis afterwards, "ok" or "ValueError">>
run_analysis(p) ==
    IF IsNone(p.artifacts) THEN <<p.analysis, "ValueError">>
    ELSE <<Some(build_analysis(Val(p.artifacts))), "ok">>

(***************************************************************************)
(* Pipeline/round_analysis.py: the match table                             *)
(***************************************************************************)
\* an _extract_pair_scores that takes a score of 0 for a missing one
_extract_pair_scoresFalsy(p, mode) ==
    IF IsNone(p.analysis) THEN None
    ELSE LET sA == IF mode = "initial" THEN Val(p.analysis).reasonForA.sumPersuasiveness
                   ELSE Val(p.analysis).reasonForA.sumAdvantage
             sB == IF mode = "initial" THEN Val(p.analysis).reasonForB.sumPersuasiveness
                   ELSE Val(p.analysis).reasonForB.sumAdvantage
         IN  IF sA = 0 \/ sB = 0 THEN None ELSE Some(<<sA, sB>>)

\* _extract_pair_scores: None or Some(<<scoreA, scoreB>>)
_extract_pair_scores(p, mode) ==
    IF IsNone(p.analysis) THEN None
    ELSE IF mode = "initial"
         THEN Some(<<Val(p.analysis).reasonForA.sumPersuasiveness,
                     Val(p.analysis).reasonForB.sumPersuasiveness>>)
         ELSE Some(<<Val(p.analysis).reasonForA.sumAdvantage,
                     Val(p.analysis).reasonForB.sumAdvantage>>)

\* the two views of a round analysis
Modes == {"initial", "reply"}

CellScore(sA, sB) == [scoreA |-> sA, scoreB |-> sB, gap |-> sA - sB]

EmptyTable(N) == [c \in Range(N) \X Range(N) |-> None]

\* a loop that adds the scores to the sums before it looks at the indices
RECURSIVE MatchLoopSumFirst(_, _, _, _, _, _, _)
MatchLoopSumFirst(N, pairList, mode, k, table, sumA, sumB) ==
    IF k > Len(pairList) THEN <<table, sumA, sumB>>
    ELSE LET p == pairList[k]
             sc == _extract_pair_scores(p, mode)
         IN  IF IsNone(sc)
             THEN MatchLoopSumFirst(N, pairList, mode, k + 1, table, sumA, sumB)
             ELSE IF p.nameA \notin Range(N) \/ p.nameB \notin Range(N)
                     \/ p.nameA = p.nameB
             THEN MatchLoopSumFirst(N, pairList, mode, k + 1, table,
                                    sumA + Val(sc)[1], sumB + Val(sc)[2])
             ELSE MatchLoopSumFirst(N, pairList, mode, k + 1,
                            [table EXCEPT ![<<p.nameA, p.nameB>>] =
                                Some(CellScore(Val(sc)[1], Val(sc)[2]))],
                            sumA + Val(sc)[1], sumB + Val(sc)[2])

\* the loop of _build_match_table_and_bias from pair k on:
\* <<table, sum_scoreA, sum_scoreB>>
RECURSIVE MatchLoop(_, _, _, _, _, _, _)
MatchLoop(N, pairList, mode, k, table, sumA, sumB) ==
    IF k > Len(pairList) THEN <<table, sumA, sumB>>
    ELSE LET p == pairList[k]
             sc == _extract_pair_scores(p, mode)
         IN  IF IsNone(sc)
             THEN MatchLoop(N, pairList, mode, k + 1, table, sumA, sumB)
             ELSE IF p.nameA \notin Range(N) \/ p.nameB \notin Range(N)
                     \/ p.nameA = p.nameB
             THEN MatchLoop(N, pairList, mode, k + 1, table, sumA, sumB)
             ELSE MatchLoop(N, pairList, mode, k + 1,
                            [table EXCEPT ![<<p.nameA, p.nameB>>] =
                                Some(CellScore(Val(sc)[1], Val(sc)[2]))],
                            sumA + Val(sc)[1], sumB + Val(sc)[2])

\* <<table, positional_bias>>
_build_match_table_and_bias(N, pairList, mode) ==
    LET r == MatchLoop(N, pairList, mode, 1, EmptyTable(N), 0, 0)
    IN  <<r[1], r[2] - r[3]>>

\* the filled cells in the order "for i in range(N): for j in range(N)"
RECURSIVE ObsFrom(_, _, _)
ObsFrom(N, table, k) ==
    IF k >= N * N THEN <<>>
    ELSE LET i == k \div N
             j == k % N
         IN  IF i = j \/ IsNone(table[<<i, j>>])
             THEN ObsFrom(N, table, k + 1)
             ELSE <<<<i, j, Val(table[<<i, j>>])>>>> \o ObsFrom(N, table, k + 1)
Observations(N, table) == ObsFrom(N, table, 0)

(***************************************************************************)
(* The three aggregators.  A score is a numerator over a denominator that  *)
(* is positive and the same for all candidates of one vector; numerators   *)
(* and denominators are polynomials in the ridge eps (of degree 0 where    *)
(* there is no ridge).  A score vector is [num |-> <<...>>, den |-> d].    *)
(***************************************************************************)
ScoreVec(nums, den) == [num |-> nums, den |-> den]

\* a sum that adds the gap for the second member as well
position_sums_from_tableAdded(N, table) ==
    Bind(Observations(N, table), LAMBDA obs :
        LET sum_as_A(c) ==
                SumSeq(Tab(LAMBDA k : IF obs[k][1] = c THEN obs[k][3].gap ELSE 0, Len(obs)))
            sum_as_B(c) ==
                SumSeq(Tab(LAMBDA k : IF obs[k][2] = c THEN obs[k][3].gap ELSE 0, Len(obs)))
        IN  ScoreVec(Tab(LAMBDA r : PConst(sum_as_A(r - 1) + sum_as_B(r - 1), 0), N),
                     PConst(1, 0)))

\* position_sums_from_table: sum_all, in units of 1e-4
position_sums_from_table(N, table) ==
    Bind(Observations(N, table), LAMBDA obs :
        LET sum_as_A(c) ==
                SumSeq(Tab(LAMBDA k : IF obs[k][1] = c THEN obs[k][3].gap ELSE 0, Len(obs)))
            sum_as_B(c) ==
                SumSeq(Tab(LAMBDA k : IF obs[k][2] = c THEN 0 - obs[k][3].gap ELSE 0,
                           Len(obs)))
        IN  ScoreVec(Tab(LAMBDA r : PConst(sum_as_A(r - 1) + sum_as_B(r - 1), 0), N),
                     PConst(1, 0)))

\* a right-hand side with the two signs exchanged
RightHandSideSwapped(N, obsPairs, target) ==
    Tab(LAMBDA r :
          SumSeq(Tab(LAMBDA k : IF obsPairs[k][1] = r - 1 THEN 0 - target[k]
                                ELSE IF obsPairs[k][2] = r - 1 THEN target[k]
                                ELSE 0, Len(obsPairs))), N)

\* X^T y or W_tilde^T mu_tilde: entry i sums the targets of the rows with
\* +1 at i and subtracts those of the rows with -1 at i (the anchor's
\* target is 0)
RightHandSide(N, obsPairs, target) ==
    Tab(LAMBDA r :
          SumSeq(Tab(LAMBDA k : IF obsPairs[k][1] = r - 1 THEN target[k]
                                ELSE IF obsPairs[k][2] = r - 1 THEN 0 - target[k]
                                ELSE 0, Len(obsPairs))), N)

\* (Adj b)[r] for a polynomial matrix Adj and an integer vector b
RECURSIVE PDot(_, _, _, _)
PDot(row, b, k, d) ==
    IF k > Len(b) THEN PConst(0, d)
    ELSE PAdd(PScale(b[k], row[k]), PDot(row, b, k + 1, d))

\* _lse_scores_from_table: s_hat = inv(X^T X + ridge I) (X^T y); inv does
\* not raise for ridge > 0 (the matrix is positive definite)
_lse_scores_from_table(N, table) ==
    Bind(Observations(N, table), LAMBDA obs :
        IF Len(obs) = 0 THEN ScoreVec(Tab(LAMBDA r : PConst(0, N), N), PConst(1, N))
        ELSE Bind(Tab(LAMBDA k : <<obs[k][1], obs[k][2]>>, Len(obs)), LAMBDA obsPairs :
             Bind(Gram(N, obsPairs), LAMBDA G :
             Bind(Ridged(G, N), LAMBDA A :
             Bind(Tab(LAMBDA k : obs[k][3].gap, Len(obs)), LAMBDA y :
             Bind(RightHandSide(N, obsPairs, y), LAMBDA b :
             Bind(PAdjugate(A, N, N), LAMBDA Adj :
                 ScoreVec(Tab(LAMBDA r : PDot(Adj[r], b, 1, N), N),
                          PDet(A, IndexSeq(N), IndexSeq(N), N)))))))))

\* 1 / (1 + exp(-g)) in units of 1e-4, for a gap g (units of 1e-4) that is a
\* multiple of LogisticStep within +-LogisticSpan: math.exp tabulated
LogisticTable ==
    <<1192, 1480, 1824, 2227, 2689, 3208, 3775, 4378, 5000,
      5622, 6225, 6792, 7311, 7773, 8176, 8520, 8808>>
Logistic(g) == LogisticTable[((g + 20000) \div 2500) + 1]

\* a poe_gaussian_scores without the return of lines 21-22 for an empty list
poe_gaussian_scoresNoEmptyCase(N, comps) ==
    Bind(Len(comps), LAMBDA cnt :
    Bind(SumSeq(Tab(LAMBDA k : comps[k][3], cnt)), LAMBDA total :
    Bind(Tab(LAMBDA k : cnt * comps[k][3] - total, cnt), LAMBDA mu :
    Bind(Tab(LAMBDA k : <<comps[k][1], comps[k][2]>>, cnt), LAMBDA obsPairs :
    Bind(Gram(N, obsPairs), LAMBDA G :
    Bind(Tab(LAMBDA r : Tab(LAMBDA c : PConst(G[r][c], 0), N), N), LAMBDA A :
    Bind(RightHandSide(N, obsPairs, mu), LAMBDA b :
    Bind(PDet(A, IndexSeq(N), IndexSeq(N), 0), LAMBDA det :
        IF det[1] = 0 THEN <<"LinAlgError">>
        ELSE Bind(PAdjugate(A, N, 0), LAMBDA Adj :
                 <<"ok", ScoreVec(Tab(LAMBDA r : PDot(Adj[r], b, 1, 0), N),
                                  PScale(cnt, det))>>)))))))))

\* poe_gaussian_scores: <<"LinAlgError">> when np.linalg.solve meets a
\* singular W_tilde^T W_tilde, else <<"ok", score vector>>.  mu and beta are
\* scaled by the number of observations to stay integral.
poe_gaussian_scores(N, comps) ==
    IF Len(comps) = 0 THEN <<"ok", ScoreVec(Tab(LAMBDA r : PConst(0, 0), N), PConst(1, 0))>>
    ELSE Bind(Len(comps), LAMBDA cnt :
         Bind(SumSeq(Tab(LAMBDA k : comps[k][3], cnt)), LAMBDA total :
         Bind(Tab(LAMBDA k : cnt * comps[k][3] - total, cnt), LAMBDA mu :
         Bind(Tab(LAMBDA k : <<comps[k][1], comps[k][2]>>, cnt), LAMBDA obsPairs :
         Bind(Gram(N, obsPairs), LAMBDA G :
         Bind(Tab(LAMBDA r : Tab(LAMBDA c : PConst(G[r][c], 0), N), N), LAMBDA A :
         Bind(RightHandSide(N, obsPairs, mu), LAMBDA b :
         Bind(PDet(A, IndexSeq(N), IndexSeq(N), 0), LAMBDA det :
             IF det[1] = 0 THEN <<"LinAlgError">>
             ELSE Bind(PAdjugate(A, N, 0), LAMBDA Adj :
                      <<"ok", ScoreVec(Tab(LAMBDA r : PDot(Adj[r], b, 1, 0), N),
                                       PScale(cnt, det))>>)))))))))

\* a PoE that takes the logistic of scoreA alone
_poe_scores_from_tableScoreA(N, table) ==
    Bind(Observations(N, table), LAMBDA obs :
    Bind(Tab(LAMBDA k : <<obs[k][1], obs[k][2], Logistic(obs[k][3].scoreA)>>, Len(obs)),
         LAMBDA comps : poe_gaussian_scores(N, comps)))

\* _poe_scores_from_table.  The return of lines 249-250 for an empty list is
\* the one poe_gaussian_scores makes at its lines 21-22.
_poe_scores_from_table(N, table) ==
    Bind(Observations(N, table), LAMBDA obs :
    Bind(Tab(LAMBDA k : <<obs[k][1], obs[k][2],
                          Logistic(obs[k][3].scoreA - obs[k][3].scoreB)>>, Len(obs)),
         LAMBDA comps : poe_gaussian_scores(N, comps)))

(***************************************************************************)
(* Pipeline/round_analysis.py: the rank evaluator                          *)
(***************************************************************************)
Nan == <<"nan">>
Num(v) == <<"num", v>>

\* candidates with a ground-truth rank: the keys of gt_ranks (every
\* candidate has a model score)
Common(cands) == {c \in Range(Len(cands)) : ~IsNone(cands[c + 1].gt_rank)}

\* twice the average-tie rank of candidate c among `common`, by descending score
Rank2(common, scores, c) ==
    2 * Cardinality({e \in common : PGreater(scores.num[e + 1], scores.num[c + 1])})
    + Cardinality({e \in common : scores.num[e + 1] = scores.num[c + 1]}) + 1

RECURSIVE SumOver(_, _)
SumOver(F(_), S) ==
    IF S = {} THEN 0
    ELSE Bind(CHOOSE e \in S : TRUE, LAMBDA c :
             Bind(S \ {c}, LAMBDA rest : F(c) + SumOver(F, rest)))

\* Pearson's correlation of x and y over `common`, as <<"rho", cov, vx, vy>>
\* standing for cov / sqrt(vx * vy); nan for a constant input
Pearson(common, x(_), y(_)) ==
    Bind(Cardinality(common), LAMBDA m :
    Bind(SumOver(x, common), LAMBDA sx :
    Bind(SumOver(y, common), LAMBDA sy :
    Bind(m * SumOver(LAMBDA c : x(c) * y(c), common) - sx * sy, LAMBDA cov :
    Bind(m * SumOver(LAMBDA c : x(c) * x(c), common) - sx * sx, LAMBDA vx :
    Bind(m * SumOver(LAMBDA c : y(c) * y(c), common) - sy * sy, LAMBDA vy :
        IF vx = 0 \/ vy = 0 THEN Nan ELSE <<"rho", cov, vx, vy>>))))))

\* a test that lets two common candidates through
TooFewCommonOffByOne(m) == m < 2

\* line 34: "if len(common) < 3"
TooFewCommon(m) == m < 3

\* scipy's rankdata, which spearmanr applies to both of its arguments: twice
\* the average-tie rank, ascending, of v[c + 1] among the entries of `common`
RankData2(common, v, c) ==
    2 * Cardinality({e \in common : v[e + 1] < v[c + 1]})
    + Cardinality({e \in common : v[e + 1] = v[c + 1]}) + 1

\* _spearman_rho_with_p: <<rho, p, the names of df>>; the p-value is a
\* function of rho and the sample size, kept symbolic.  x is df["gt_rank"],
\* y is twice df["llm_rank"]; spearmanr(x, y) ranks x and y and returns
\* Pearson's correlation of the ranks.
_spearman_rho_with_p(cands, scores) ==
    Bind(<<Common(cands), scores>>, LAMBDA a :
        IF TooFewCommon(Cardinality(a[1])) THEN <<Nan, Nan, {}>>
        ELSE
        Bind(Tab(LAMBDA r : IF r - 1 \in a[1] THEN Val(cands[r].gt_rank) ELSE 0,
                 Len(cands)), LAMBDA x :
        Bind(Tab(LAMBDA r : IF r - 1 \in a[1] THEN Rank2(a[1], a[2], r - 1) ELSE 0,
                 Len(cands)), LAMBDA y :
        Bind(Tab(LAMBDA r : IF r - 1 \in a[1] THEN RankData2(a[1], x, r - 1) ELSE 0,
                 Len(cands)), LAMBDA xr :
        Bind(Tab(LAMBDA r : IF r - 1 \in a[1] THEN RankData2(a[1], y, r - 1) ELSE 0,
                 Len(cands)), LAMBDA yr :
        Bind(Pearson(a[1], LAMBDA c : xr[c + 1], LAMBDA c : yr[c + 1]), LAMBDA rho :
            <<rho,
              IF rho = Nan THEN Nan ELSE <<"p", rho, Cardinality(a[1])>>,
              a[1]>>))))))

\* _rank_result_from_scores
_rank_result_from_scores(cands, scores) ==
    Bind(<<_spearman_rho_with_p(cands, scores), scores>>, LAMBDA r :
        [spearman_rho |-> r[1][1],
         p_value |-> r[1][2],
         rank_list |->
            [c \in r[1][3] |->
                [gt_rank |-> Val(cands[c + 1].gt_rank),
                 gt_score |-> IF IsNone(cands[c + 1].gt_score) THEN Nan
                              ELSE Num(Val(cands[c + 1].gt_score)),
                 llm_rank |-> RoundDiv(Rank2(r[1][3], r[2], c), 2),
                 model_score |-> <<r[2].num[c + 1], r[2].den>>]]])

\* _one_mode: <<"ok", MatchResult>> or <<"LinAlgError">>
_one_mode(cands, pairList, mode) ==
    Bind(_build_match_table_and_bias(Len(cands), pairList, mode), LAMBDA tb :
    Bind(_poe_scores_from_table(Len(cands), tb[1]), LAMBDA poe :
        IF poe[1] = "LinAlgError" THEN <<"LinAlgError">>
        ELSE <<"ok",
               [sum_all |-> _rank_result_from_scores(cands,
                                position_sums_from_table(Len(cands), tb[1])),
                poe_gaussian |-> _rank_result_from_scores(cands, poe[2]),
                lse |-> _rank_result_from_scores(cands,
                                _lse_scores_from_table(Len(cands), tb[1])),
                positionalBias |-> tb[2],
                match_table |-> tb[1]]>>))

\* compute_round_analysis: <<"ok", RoundAnalysis>> or <<"LinAlgError">>
compute_round_analysis(cands, pairList) ==
    Bind(_one_mode(cands, pairList, "initial"), LAMBDA init_res :
        IF init_res[1] = "LinAlgError" THEN <<"LinAlgError">>
        ELSE Bind(_one_mode(cands, pairList, "reply"), LAMBDA reply_res :
                IF reply_res[1] = "LinAlgError" THEN <<"LinAlgError">>
                ELSE <<"ok", [InitialArgumentOnly |-> init_res[2],
                              ArgumentWithReply |-> reply_res[2]]>>))

(***************************************************************************)
(* Pipeline/compare.py and Agents/Committee.py: the Judge                  *)
(***************************************************************************)
\* make_validation_agent(reason_list_key, output_key, claim_key, position_key)
\* has four required parameters
ValidationAgentParams == 4
\* run_compare_pipeline builds its evaluators with three arguments
EvaluatorArgsPassed == 3

make_validation_agent(nargs) ==
    IF nargs = ValidationAgentParams THEN "agent" ELSE "TypeError"

\* run_compare_pipeline on one behaviour of the agents: `ag.agent_error`
\* says that an agent call raises, `ag.artifacts` is what the calls would
\* assemble.  Lines 96, 115, 173 and 209 build an evaluator; line 173 is
\* reached on every path that no earlier call has left.
run_compare_pipeline(ag) ==
    IF ag.agent_error THEN <<"raise">>
    ELSE IF make_validation_agent(EvaluatorArgsPassed) = "TypeError" THEN <<"raise">>
    ELSE <<"return", ag.artifacts>>

\* Pair.compare: <<self.artifacts afterwards, "raise" | "complete" | "incomplete">>
compare(p, ag) ==
    LET r == run_compare_pipeline(ag)
    IN  IF r[1] = "raise" THEN <<p.artifacts, "raise">>
        ELSE <<Some(r[2]), IF is_complete(r[2]) THEN "complete" ELSE "incomplete">>

(***************************************************************************)
(* Pipeline/make_pairs.py: the selection part of ensure_pairs              *)
(***************************************************************************)
all_budget == n * (n - 1)
do_full == IF IsNone(K) THEN TRUE ELSE Val(K) >= all_budget

\* line 29-31: the full directed matrix
SelectFull ==
    /\ pc = "select"
    /\ do_full
    /\ chosen' = FullMatrix(n)
    /\ pc' = "loop"
    /\ UNCHANGED <<n, K, picked, si, runVars, greedyVars, aggVars, callVars>>

\* a star seed that starts at candidate 2
SelectBudgetedFromTwo ==
    /\ pc = "select"
    /\ ~do_full
    /\ picked' = {}
    /\ si' = 2
    /\ pc' = "star"
    /\ UNCHANGED <<n, K, chosen, runVars, greedyVars, aggVars, callVars>>

\* line 32-35: enter the budgeted branch
SelectBudgeted ==
    /\ pc = "select"
    /\ ~do_full
    /\ picked' = {}
    /\ si' = 1
    /\ pc' = "star"
    /\ UNCHANGED <<n, K, chosen, runVars, greedyVars, aggVars, callVars>>

\* a star-seed loop without the break of line 36-37
StarStepNoBreak ==
    /\ pc = "star"
    /\ si < n
    /\ picked' = picked \cup {<<si, 0>>}
    /\ si' = si + 1
    /\ UNCHANGED <<n, K, pc, chosen, runVars, greedyVars, aggVars, callVars>>

\* line 35-38: one iteration of the star-seed loop
StarStep ==
    /\ pc = "star"
    /\ si < n
    /\ Cardinality(picked) < Val(K)
    /\ picked' = picked \cup {<<si, 0>>}
    /\ si' = si + 1
    /\ UNCHANGED <<n, K, pc, chosen, runVars, greedyVars, aggVars, callVars>>

\* line 35-37: the star-seed loop ends (range exhausted, or break)
StarEnd ==
    /\ pc = "star"
    /\ ~(si < n /\ Cardinality(picked) < Val(K))
    /\ pc' = "greedy"
    /\ UNCHANGED <<n, K, picked, si, chosen, runVars, greedyVars, aggVars, callVars>>

\* line 39-43: one iteration of the greedy loop
GreedyStep ==
    /\ pc = "greedy"
    /\ Cardinality(picked) < Val(K)
    /\ LET ij == next_pair_greedy(n, picked)
       IN  IF IsNone(ij)
           THEN /\ chosen' = SortPairs(n, picked)
                /\ pc' = "loop"
                /\ UNCHANGED picked
           ELSE /\ picked' = picked \cup {Val(ij)}
                /\ UNCHANGED <<pc, chosen>>
    /\ UNCHANGED <<n, K, si, runVars, greedyVars, aggVars, callVars>>

\* a greedy loop that can end one pair short of the budget
GreedyEndOneShort ==
    /\ pc = "greedy"
    /\ Cardinality(picked) >= Val(K) - 1
    /\ chosen' = SortPairs(n, picked)
    /\ pc' = "loop"
    /\ UNCHANGED <<n, K, picked, si, runVars, greedyVars, aggVars, callVars>>

\* line 39, 44: the greedy loop ends; chosen = list(picked).  The list order
\* of a Python set is fixed for a given build; the model takes the
\* iteration order of the pairs.
GreedyEnd ==
    /\ pc = "greedy"
    /\ Cardinality(picked) >= Val(K)
    /\ chosen' = SortPairs(n, picked)
    /\ pc' = "loop"
    /\ UNCHANGED <<n, K, picked, si, runVars, greedyVars, aggVars, callVars>>

Budgets(m) == {None} \cup {Some(k) : k \in 0..(m * (m - 1) + 1)}

(***************************************************************************)
(* Sample data: what the agents and earlier invocations can have produced. *)
(***************************************************************************)
\* complete: one scored reason for A, "None" for B
ArtGood1 ==
    [ArtDefault EXCEPT
        !.Init_ArgumentA = Some("text"), !.Init_ArgumentB = Some("text"),
        !.reason_list_init_A = <<"r1">>, !.CRIT_scores_init_A = <<Crit(100, 50)>>,
        !.reason_list_init_B = <<"None">>]

\* complete: reasons on both sides, one question to A answered and scored
ArtGood2 ==
    [ArtDefault EXCEPT
        !.Init_ArgumentA = Some("text"), !.Init_ArgumentB = Some("text"),
        !.reason_list_init_A = <<"r1">>, !.CRIT_scores_init_A = <<Crit(50, 50)>>,
        !.reason_list_init_B = <<"r1", "r2">>,
        !.CRIT_scores_init_B = <<Crit(100, 50), Crit(50, 50)>>,
        !.moderator_question_for_A = <<"q1">>, !.answer_list_A = <<"a1">>,
        !.reason_list_QA_A = <<<<"r1">>>>, !.CRIT_scores_QA_A = <<<<Crit(50, 100)>>>>]

\* incomplete: two reasons for A and one score
ArtPartial ==
    [ArtDefault EXCEPT
        !.Init_ArgumentA = Some("text"), !.Init_ArgumentB = Some("text"),
        !.reason_list_init_A = <<"r1", "r2">>, !.CRIT_scores_init_A = <<Crit(100, 100)>>,
        !.reason_list_init_B = <<"None">>]

\* an analysis that belongs to none of the incomplete samples
StaleAnalysis == build_analysis(ArtGood1)

\* the "artifacts" dict {} : accepted, every field takes its default
EmptyDict == [f \in {} |-> 0]

\* what a pair file can hold before the first invocation
InitialFiles ==
    {MissingFile,
     UnreadableFile,
     JsonFile(Absent, Absent),
     JsonFile(Invalid, Obj(StaleAnalysis)),
     JsonFile(Obj(EmptyDict), Invalid),
     JsonFile(Obj(DumpArtifacts(ArtPartial)), Absent),
     JsonFile(Obj(DumpArtifacts(ArtGood1)), Absent),
     JsonFile(Obj(DumpArtifacts(ArtGood2)), Obj(StaleAnalysis))}

\* the pair file has not been read or written yet: it holds any of InitialFiles
Unobserved == <<"unobserved">>

\* the behaviours of the agents during one run_compare_pipeline
AgentRuns ==
    {[agent_error |-> TRUE, artifacts |-> ArtDefault],
     [agent_error |-> FALSE, artifacts |-> ArtGood1],
     [agent_error |-> FALSE, artifacts |-> ArtGood2],
     [agent_error |-> FALSE, artifacts |-> ArtPartial]}

\* ground truth of the candidates: candidate i has rank i + 1
GtAll(m) == Tab(LAMBDA r : [gt_rank |-> Some(r), gt_score |-> Some(10 * (m - r))], m)

(***************************************************************************)
(* Pair.save_json and the file system                                      *)
(***************************************************************************)
\* a write succeeds, fails before the file is opened, or fails after
\* open(path, "w") has truncated it
SaveOutcomes == {"ok", "fail_before_write", "fail_truncated"}
AllowedSaves == IF faults < MaxFaults THEN SaveOutcomes ELSE {"ok"}

\* the file after write_text(content) with outcome sv
AfterWrite(old, content, sv) ==
    IF sv = "ok" THEN content
    ELSE IF sv = "fail_before_write" THEN old
    ELSE UnreadableFile

FaultsAfter(sv) == IF sv = "ok" THEN faults ELSE faults + 1

(***************************************************************************)
(* Pipeline/make_pairs.py: the pair loop of ensure_pairs                   *)
(***************************************************************************)
MaxAttempts == 2

\* a retry loop with one iteration more
RetryAgainOffByOne(a) == a + 1 <= MaxAttempts

\* line 72: "for attempt in range(2)" has an iteration after iteration a
RetryAgain(a) == a + 1 < MaxAttempts

CurPair == chosen[Len(pairs) + 1]

\* lines 48-69: build the Pair of the next chosen (i, j) and load its file
LoadPair ==
    /\ pc = "loop"
    /\ Len(pairs) < Len(chosen)
    /\ \E f \in (IF disk[CurPair] = Unobserved THEN InitialFiles ELSE {disk[CurPair]}) :
        LET p0 == [nameA |-> CurPair[1], nameB |-> CurPair[2],
                   artifacts |-> None, analysis |-> None]
            la == load_artifacts(p0, f)
            p1 == [p0 EXCEPT !.artifacts = la[1]]
            lan == load_analysis(p1, f)
        IN  /\ cur' = Some([p1 EXCEPT !.analysis = lan[1]])
            /\ has_artifacts' = la[2]
            /\ has_analysis' = lan[2]
            /\ disk' = [disk EXCEPT ![CurPair] = f]
            /\ seen' = [seen EXCEPT ![CurPair] = f]
            /\ pc' = IF la[2] THEN "score" ELSE "attempt"
    /\ attempt' = 0
    /\ UNCHANGED <<n, K, picked, si, chosen, candidates, roundFiles, pairs, roundAnalysis,
                   run, faults, attempts, prev, greedyVars, aggVars, callVars>>

\* lines 72-88: one iteration of the retry loop, the agents behaving in one
\* of the ways of `Runs`.  compare raising, or save_json raising after
\* compare returned, is caught at line 81.
AttemptWith(Runs) ==
    /\ pc = "attempt"
    /\ \E ag \in Runs :
        LET c == compare(Val(cur), ag)
            p1 == [Val(cur) EXCEPT !.artifacts = c[1]]
        IN  IF c[2] = "raise"
            THEN /\ attempts' = [attempts EXCEPT ![CurPair] = Append(@, "raised")]
                 /\ pc' = IF RetryAgain(attempt) THEN "attempt" ELSE "score"
                 /\ UNCHANGED <<cur, disk, faults>>
            ELSE \E sv \in AllowedSaves :
                 /\ attempts' = [attempts EXCEPT ![CurPair] = Append(@, "returned")]
                 /\ cur' = Some(p1)
                 /\ disk' = [disk EXCEPT ![CurPair] = AfterWrite(@, DumpPair(p1), sv)]
                 /\ faults' = FaultsAfter(sv)
                 /\ pc' = IF sv = "ok" THEN "score"
                          ELSE IF RetryAgain(attempt) THEN "attempt" ELSE "score"
    /\ attempt' = attempt + 1
    /\ UNCHANGED <<n, K, picked, si, chosen, candidates, roundFiles, pairs, has_artifacts,
                   has_analysis, roundAnalysis, run, seen, prev, greedyVars, aggVars, callVars>>

\* the retry loop with agents that may fail or answer badly
Attempt == AttemptWith(AgentRuns)

\* the retry loop when every agent call succeeds with well-formed,
\* consistent output
AgentsSucceed == {ag \in AgentRuns : ~ag.agent_error /\ is_complete(ag.artifacts)}
AttemptAgentsSucceed == AttemptWith(AgentsSucceed)

\* lines 89-97: score the pair, persist, append.  run_analysis or save_json
\* raising is caught at line 94.
Score ==
    /\ pc = "score"
    /\ IF ~has_analysis \/ ~has_artifacts
       THEN LET ra == run_analysis(Val(cur))
                p1 == [Val(cur) EXCEPT !.analysis = ra[1]]
            IN  IF ra[2] = "ok"
                THEN \E sv \in AllowedSaves :
                     /\ pairs' = Append(pairs, p1)
                     /\ disk' = [disk EXCEPT ![CurPair] = AfterWrite(@, DumpPair(p1), sv)]
                     /\ faults' = FaultsAfter(sv)
                ELSE /\ pairs' = Append(pairs, p1)
                     /\ UNCHANGED <<disk, faults>>
       ELSE /\ pairs' = Append(pairs, Val(cur))
            /\ UNCHANGED <<disk, faults>>
    /\ cur' = None
    /\ pc' = "loop"
    /\ UNCHANGED <<n, K, picked, si, chosen, candidates, roundFiles, has_artifacts,
                   has_analysis, attempt, roundAnalysis, run, seen, attempts, prev,
                   greedyVars, aggVars, callVars>>

\* an ensure_pairs that can return before the loop has visited every
\* chosen pair
ReturnPairsEarly ==
    /\ pc = "loop"
    /\ Len(pairs) <= Len(chosen)
    /\ pc' = "analyze"
    /\ UNCHANGED <<n, K, picked, si, chosen, runVars, greedyVars, aggVars, callVars>>

\* line 99: ensure_pairs returns; main_summeval.py line 202
ReturnPairs ==
    /\ pc = "loop"
    /\ Len(pairs) = Len(chosen)
    /\ pc' = "analyze"
    /\ UNCHANGED <<n, K, picked, si, chosen, runVars, greedyVars, aggVars, callVars>>

(***************************************************************************)
(* main_summeval.py, lines 196-208, and Domain/round.py                    *)
(***************************************************************************)
\* line 205: rnd.analysis = compute_round_analysis(rnd, pairs); a LinAlgError
\* is caught nowhere and ends the invocation
ComputeAnalysis ==
    /\ pc = "analyze"
    /\ LET r == compute_round_analysis(candidates, pairs)
       IN  IF r[1] = "ok"
           THEN /\ roundAnalysis' = Some(r[2])
                /\ pc' = "save"
           ELSE /\ roundAnalysis' = None
                /\ pc' = "crashed"
    /\ UNCHANGED <<n, K, picked, si, chosen, candidates, disk, roundFiles, pairs, cur,
                   has_artifacts, has_analysis, attempt, run, faults, seen, attempts,
                   prev, greedyVars, aggVars, callVars>>

\* Round.round_meta_filename: "round.json" or "round_K<k>.json"
round_meta_filename(budget, pairList) ==
    LET k == IF IsNone(budget) THEN Len(pairList) ELSE Val(budget)
    IN  IF k = 0 THEN <<"round.json">> ELSE <<"round_K", k>>

\* what Round.save writes to the round files: model_dump of the Round, whose
\* field pairs is excluded
RoundDump == [budget |-> K, candidates |-> candidates, analysis |-> roundAnalysis]

\* a round file that open(path, "w") has emptied and the write has not filled
TruncatedRound == [truncated |-> TRUE]

\* the files Round.save writes, in order: each pair's file, the round file,
\* and round.json when the round file has another name
SaveSteps ==
    LET meta == round_meta_filename(K, pairs)
    IN  Tab(LAMBDA k : <<"pair", k>>, Len(pairs))
        \o <<<<"round", meta>>>>
        \o (IF meta # <<"round.json">> THEN <<<<"round", <<"round.json">>>>>> ELSE <<>>)

\* the pair files after the first k steps of Round.save have succeeded
PairFilesSaved(k) ==
    [q \in DOMAIN disk |->
        IF \E m \in 1..Min(k, Len(pairs)) : chosen[m] = q
        THEN DumpPair(pairs[CHOOSE m \in 1..Len(pairs) : chosen[m] = q])
        ELSE disk[q]]

\* the round files after the first k steps of Round.save have succeeded
RoundFilesSaved(k) ==
    [f \in DOMAIN roundFiles |->
        IF \E m \in (Len(pairs) + 1)..Min(k, Len(SaveSteps)) : SaveSteps[m][2] = f
        THEN Some(RoundDump)
        ELSE roundFiles[f]]

\* line 206: rnd.save().  The write of step `fail` raises (0: none does);
\* the exception is caught nowhere and ends the invocation.
SaveRound ==
    /\ pc = "save"
    /\ \E fail \in (IF faults < MaxFaults THEN 0..Len(SaveSteps) ELSE {0}) :
        IF fail = 0
        THEN /\ disk' = PairFilesSaved(Len(SaveSteps))
             /\ roundFiles' = RoundFilesSaved(Len(SaveSteps))
             /\ pc' = "done"
             /\ UNCHANGED faults
        ELSE \E sv \in SaveOutcomes \ {"ok"} :
             LET step == SaveSteps[fail]
                 d == PairFilesSaved(fail - 1)
                 r == RoundFilesSaved(fail - 1)
             IN  /\ disk' = IF step[1] = "pair"
                            THEN [d EXCEPT ![chosen[step[2]]] =
                                      AfterWrite(@, DumpPair(pairs[step[2]]), sv)]
                            ELSE d
                 /\ roundFiles' = IF step[1] = "round"
                                  THEN [r EXCEPT ![step[2]] =
                                           IF sv = "fail_truncated" THEN Some(TruncatedRound)
                                           ELSE @]
                                  ELSE r
                 /\ pc' = "crashed"
                 /\ faults' = faults + 1
    /\ UNCHANGED <<n, K, picked, si, chosen, candidates, pairs, cur, has_artifacts,
                   has_analysis, attempt, roundAnalysis, run, seen, attempts, prev,
                   greedyVars, aggVars, callVars>>

\* main is invoked again on the same round folder, with the same candidates
\* and budget: Round.create starts from analysis = None and pairs = None
Rerun ==
    /\ pc \in {"done", "crashed"}
    /\ run < MaxRuns
    /\ run' = run + 1
    /\ prev' = IF pc = "done" THEN roundAnalysis ELSE None
    /\ pc' = "select"
    /\ picked' = {}
    /\ si' = 0
    /\ chosen' = <<>>
    /\ pairs' = <<>>
    /\ cur' = None
    /\ has_artifacts' = FALSE
    /\ has_analysis' = FALSE
    /\ attempt' = 0
    /\ roundAnalysis' = None
    /\ seen' = [q \in DOMAIN seen |-> None]
    /\ attempts' = [q \in DOMAIN attempts |-> <<>>]
    /\ UNCHANGED <<n, K, candidates, disk, roundFiles, faults, greedyVars, aggVars, callVars>>

(***************************************************************************)
(* Specifications                                                          *)
(***************************************************************************)
RoundFileNames(m) == {<<"round.json">>} \cup {<<"round_K", k>> : k \in 1..(m * (m - 1) + 1)}

\* the state of one invocation of main before ensure_pairs
InitRun ==
    /\ pc = "select"
    /\ picked = {}
    /\ si = 0
    /\ chosen = <<>>
    /\ disk = [q \in AllPairs(n) |-> Unobserved]
    /\ roundFiles = [f \in RoundFileNames(n) |-> None]
    /\ pairs = <<>>
    /\ cur = None
    /\ has_artifacts = FALSE
    /\ has_analysis = FALSE
    /\ attempt = 0
    /\ roundAnalysis = None
    /\ run = 1
    /\ faults = 0
    /\ seen = [q \in AllPairs(n) |-> None]
    /\ attempts = [q \in AllPairs(n) |-> <<>>]
    /\ prev = None

GreedyIdle ==
    /\ gn = 0
    /\ gchosen = {}
    /\ gresult = <<"idle">>

AggIdle ==
    /\ aggTable = <<>>
    /\ aggResult = <<"idle">>

CallIdle ==
    /\ callArgs = <<>>
    /\ callResult = <<"idle">>

\* main_summeval.main on a round folder, invoked up to MaxRuns times
Init ==
    /\ n \in 2..MaxCand
    /\ K \in {b \in Budgets(n) :
                IF IsNone(b) THEN n * (n - 1) <= MaxPairs
                ELSE Min(Val(b), n * (n - 1)) <= MaxPairs}
    /\ candidates = GtAll(n)
    /\ InitRun
    /\ GreedyIdle
    /\ AggIdle
    /\ CallIdle

Next ==
    \/ SelectFull
    \/ SelectBudgeted
    \/ StarStep
    \/ StarEnd
    \/ GreedyStep
    \/ GreedyEnd
    \/ LoadPair
    \/ Attempt
    \/ Score
    \/ ReturnPairs
    \/ ComputeAnalysis
    \/ SaveRound
    \/ Rerun

Spec == Init /\ [][Next]_vars

\* the selection of ensure_pairs alone, for more candidates
InitSel ==
    /\ n \in 2..MaxSelN
    /\ K \in Budgets(n)
    /\ candidates = GtAll(n)
    /\ InitRun
    /\ GreedyIdle
    /\ AggIdle
    /\ CallIdle

NextSel ==
    \/ SelectFull
    \/ SelectBudgeted
    \/ StarStep
    \/ StarEnd
    \/ GreedyStep
    \/ GreedyEnd

SpecSel == InitSel /\ [][NextSel]_vars

(***************************************************************************)
(* next_pair_greedy called on any set of chosen pairs                      *)
(***************************************************************************)
CallGreedy ==
    /\ gresult = <<"idle">>
    /\ gresult' = <<"ret", next_pair_greedy(gn, gchosen)>>
    /\ UNCHANGED <<selVars, runVars, gn, gchosen, aggVars, callVars>>

InitGreedy ==
    /\ gn \in 2..MaxGreedyN
    /\ gchosen \in SUBSET AllPairs(gn)
    /\ gresult = <<"idle">>
    /\ n = 2
    /\ K = None
    /\ candidates = GtAll(2)
    /\ InitRun
    /\ AggIdle
    /\ CallIdle

NextGreedy == CallGreedy

SpecGreedy == InitGreedy /\ [][NextGreedy]_vars

(***************************************************************************)
(* The aggregators called on any match table                               *)
(***************************************************************************)
\* the cells a table can hold: empty, or one of two scored comparisons
SampleCells == {None, Some(CellScore(5000, 0)), Some(CellScore(2500, 5000))}

Tables(N) ==
    {t \in [Range(N) \X Range(N) -> SampleCells] : \A i \in Range(N) : IsNone(t[<<i, i>>])}

ApplyAggregators ==
    /\ aggResult = <<"idle">>
    /\ aggResult' =
          <<"ret",
            [sum_all |-> <<"ok", position_sums_from_table(aggTable.N, aggTable.table)>>,
             lse |-> <<"ok", _lse_scores_from_table(aggTable.N, aggTable.table)>>,
             poe_gaussian |-> _poe_scores_from_table(aggTable.N, aggTable.table)]>>
    /\ UNCHANGED <<selVars, runVars, greedyVars, aggTable, callVars>>

InitAgg ==
    /\ \E N \in 0..MaxAggN : \E t \in Tables(N) : aggTable = [N |-> N, table |-> t]
    /\ aggResult = <<"idle">>
    /\ n = 2
    /\ K = None
    /\ candidates = GtAll(2)
    /\ InitRun
    /\ GreedyIdle
    /\ CallIdle

NextAgg == ApplyAggregators

SpecAgg == InitAgg /\ [][NextAgg]_vars

(***************************************************************************)
(* PairArtifacts.is_complete called on any artifacts                       *)
(***************************************************************************)
SampleCrit == Crit(100, 50)

\* the reasons and the scores of one reason group
SampleReasons == {<<>>, <<"r1">>, <<"None">>, <<" none ", "None">>, <<"r1", "None">>}
SampleCrits == {<<>>, <<SampleCrit>>, <<SampleCrit, SampleCrit>>}

\* the question-and-answer lists of side A
SampleQA ==
    [moderator_question_for_A : {<<>>, <<"q1">>},
     answer_list_A : {<<>>, <<"a1">>, <<"a1", "a2">>},
     reason_list_QA_A : {<<>>, <<<<"r1">>>>, <<<<"None">>>>, <<<<"r1">>, <<"r1", "r2">>>>},
     CRIT_scores_QA_A : {<<>>, <<<<SampleCrit>>>>, <<<<>>>>,
                         <<<<SampleCrit>>, <<SampleCrit>>>>}]

\* the question-and-answer lists of side B: none, one consistent entry, one
\* entry with a reason and no score
SampleQAB ==
    {[moderator_question_for_B |-> <<>>, answer_list_B |-> <<>>,
      reason_list_QA_B |-> <<>>, CRIT_scores_QA_B |-> <<>>],
     [moderator_question_for_B |-> <<"q1">>, answer_list_B |-> <<"a1">>,
      reason_list_QA_B |-> <<<<"None">>>>, CRIT_scores_QA_B |-> <<<<>>>>],
     [moderator_question_for_B |-> <<"q1">>, answer_list_B |-> <<"a1">>,
      reason_list_QA_B |-> <<<<"r1">>>>, CRIT_scores_QA_B |-> <<<<>>>>]}

SampleArtifacts ==
    {[Init_ArgumentA |-> argA, Init_ArgumentB |-> argB,
      reason_list_init_A |-> rA, CRIT_scores_init_A |-> cA,
      reason_list_init_B |-> rB, CRIT_scores_init_B |-> <<>>,
      moderator_question_for_A |-> qa.moderator_question_for_A,
      answer_list_A |-> qa.answer_list_A,
      reason_list_QA_A |-> qa.reason_list_QA_A,
      CRIT_scores_QA_A |-> qa.CRIT_scores_QA_A,
      moderator_question_for_B |-> qb.moderator_question_for_B,
      answer_list_B |-> qb.answer_list_B,
      reason_list_QA_B |-> qb.reason_list_QA_B,
      CRIT_scores_QA_B |-> qb.CRIT_scores_QA_B] :
        argA \in {None, Some(" "), Some("text")}, argB \in {None, Some("text")},
        rA \in SampleReasons, cA \in SampleCrits, rB \in {<<"None">>, <<"r1">>},
        qa \in SampleQA, qb \in SampleQAB}

CallIsComplete ==
    /\ callResult = <<"idle">>
    /\ callResult' = <<"ret", is_complete(callArgs)>>
    /\ UNCHANGED <<selVars, runVars, greedyVars, aggVars, callArgs>>

InitArt ==
    /\ callArgs \in SampleArtifacts
    /\ callResult = <<"idle">>
    /\ n = 2
    /\ K = None
    /\ candidates = GtAll(2)
    /\ InitRun
    /\ GreedyIdle
    /\ AggIdle

NextArt == CallIsComplete

SpecArt == InitArt /\ [][NextArt]_vars

(***************************************************************************)
(* _build_match_table_and_bias called on any list of pairs.  A pair of the *)
(* list carries the indices idx[nameA] and idx[nameB] of its names: two    *)
(* pairs carry the same indices when the list repeats a pair or when two   *)
(* candidates of the round share a name, and a pair carries i = j when its *)
(* two candidates share a name.                                            *)
(***************************************************************************)
MaxTableLen == 3
TableN == 2

\* the analysis of a pair of the list: none, or one built from sample artifacts
SampleAnalyses ==
    {None, Some(build_analysis(ArtDefault)), Some(build_analysis(ArtGood1)),
     Some(build_analysis(ArtGood2))}

SamplePairs ==
    [nameA : Range(TableN), nameB : Range(TableN), artifacts : {None},
     analysis : SampleAnalyses]

RECURSIVE ListsUpTo(_, _)
ListsUpTo(S, len) ==
    IF len = 0 THEN {<<>>}
    ELSE ListsUpTo(S, len - 1)
         \cup {Append(l, e) : l \in {m \in ListsUpTo(S, len - 1) : Len(m) = len - 1}, e \in S}

CallBuildTable ==
    /\ callResult = <<"idle">>
    /\ callResult' =
          <<"ret", [mode \in Modes |->
                       _build_match_table_and_bias(TableN, callArgs, mode)]>>
    /\ UNCHANGED <<selVars, runVars, greedyVars, aggVars, callArgs>>

InitTable ==
    /\ callArgs \in ListsUpTo(SamplePairs, MaxTableLen)
    /\ callResult = <<"idle">>
    /\ n = 2
    /\ K = None
    /\ candidates = GtAll(2)
    /\ InitRun
    /\ GreedyIdle
    /\ AggIdle

NextTable == CallBuildTable

SpecTable == InitTable /\ [][NextTable]_vars

(***************************************************************************)
(* _rank_result_from_scores called on any ground truth and any scores      *)
(***************************************************************************)
MinRankN == 2
MaxRankN == 4

\* the ground-truth rank of a candidate: none, or a rank of a list of ten
SampleGtRanks == {None, Some(1), Some(2), Some(10)}

\* the model score of a candidate, in units of 1e-4
SampleScores == {0, 5000, 10000}

RankInputs(N) ==
    [cands : [1..N -> [gt_rank : SampleGtRanks, gt_score : {None}]],
     scores : {ScoreVec(Tab(LAMBDA r : PConst(v[r], 0), N), PConst(1, 0)) :
                  v \in [1..N -> SampleScores]}]

CallRankResult ==
    /\ callResult = <<"idle">>
    /\ callResult' = <<"ret", _rank_result_from_scores(callArgs.cands, callArgs.scores)>>
    /\ UNCHANGED <<selVars, runVars, greedyVars, aggVars, callArgs>>

InitRank ==
    /\ \E N \in MinRankN..MaxRankN : callArgs \in RankInputs(N)
    /\ callResult = <<"idle">>
    /\ n = 2
    /\ K = None
    /\ candidates = GtAll(2)
    /\ InitRun
    /\ GreedyIdle
    /\ AggIdle

NextRank == CallRankResult

SpecRank == InitRank /\ [][NextRank]_vars

(***************************************************************************)
(* The aggregators called on fully connected, anti-symmetric match tables: *)
(* the comparison of i and j has the same two scores in either order.      *)
(***************************************************************************)
\* the scores (first of the lower index, then of the higher) of one comparison
SampleScorePairs == {<<0, 0>>, <<2500, 0>>, <<0, 2500>>, <<5000, 0>>, <<2500, 5000>>}

AntiSymmetricTables(N) ==
    {[q \in Range(N) \X Range(N) |->
         IF q[1] = q[2] THEN None
         ELSE IF q[1] < q[2] THEN Some(CellScore(sc[q][1], sc[q][2]))
         ELSE Some(CellScore(sc[<<q[2], q[1]>>][2], sc[<<q[2], q[1]>>][1]))] :
        sc \in [{q \in AllPairs(N) : q[1] < q[2]} -> SampleScorePairs]}

InitAnti ==
    /\ \E N \in 2..MaxAggN : \E t \in AntiSymmetricTables(N) :
          aggTable = [N |-> N, table |-> t]
    /\ aggResult = <<"idle">>
    /\ n = 2
    /\ K = None
    /\ candidates = GtAll(2)
    /\ InitRun
    /\ GreedyIdle
    /\ CallIdle

NextAnti == ApplyAggregators

SpecAnti == InitAnti /\ [][NextAnti]_vars

(***************************************************************************)
(* The scenario of 4 candidates and budget 6, on a round folder in which   *)
(* an earlier invocation has left complete artifacts for every pair        *)
(***************************************************************************)
\* the file of pair q: complete artifacts, without or with an analysis
ScenarioFile(q) ==
    IF (q[1] + q[2]) % 2 = 1
    THEN JsonFile(Obj(DumpArtifacts(ArtGood1)), Absent)
    ELSE JsonFile(Obj(DumpArtifacts(ArtGood2)), Obj(StaleAnalysis))

InitScenario ==
    /\ n = 4
    /\ K = Some(6)
    /\ candidates = GtAll(n)
    /\ pc = "select"
    /\ picked = {}
    /\ si = 0
    /\ chosen = <<>>
    /\ disk = [q \in AllPairs(n) |-> ScenarioFile(q)]
    /\ roundFiles = [f \in RoundFileNames(n) |-> None]
    /\ pairs = <<>>
    /\ cur = None
    /\ has_artifacts = FALSE
    /\ has_analysis = FALSE
    /\ attempt = 0
    /\ roundAnalysis = None
    /\ run = 1
    /\ faults = 0
    /\ seen = [q \in AllPairs(n) |-> None]
    /\ attempts = [q \in AllPairs(n) |-> <<>>]
    /\ prev = None
    /\ GreedyIdle
    /\ AggIdle
    /\ CallIdle

NextScenario ==
    \/ SelectBudgeted
    \/ StarStep
    \/ StarEnd
    \/ GreedyStep
    \/ GreedyEnd
    \/ LoadPair
    \/ Attempt
    \/ Score
    \/ ReturnPairs
    \/ ComputeAnalysis
    \/ SaveRound
    \/ Rerun

SpecScenario == InitScenario /\ [][NextScenario]_vars

(***************************************************************************)
(* Pipeline/poe.py: rank_from_scores, called alone (SpecRankFrom)          *)
(***************************************************************************)
MaxScoreLen == 4    \* entries of the score vector given to rank_from_scores

\* the values of the entries
SampleEntries == {0, 1, 2}

\* line 51: np.argsort(-s).  The default sort is not stable: the positions
\* come by descending score, tied positions in any order.  Positions are
\* numbered from 1.
ArgsortDescending(s) ==
    {order \in [1..Len(s) -> 1..Len(s)] :
        /\ \A a, b \in 1..Len(s) : a # b => order[a] # order[b]
        /\ \A a, b \in 1..Len(s) : a < b => s[order[a]] >= s[order[b]]}

\* a loop that numbers the distinct values 1, 2, 3, ...
RECURSIVE RankLoopDense(_, _, _, _, _, _)
RankLoopDense(s, order, idx, last_score, last_rank, ranks) ==
    IF idx > Len(order) THEN ranks
    ELSE Bind(order[idx], LAMBDA pos :
         IF IsNone(last_score) \/ s[pos] < Val(last_score)
         THEN RankLoopDense(s, order, idx + 1, Some(s[pos]), last_rank + 1,
                            [ranks EXCEPT ![pos] = last_rank + 1])
         ELSE RankLoopDense(s, order, idx + 1, last_score, last_rank,
                            [ranks EXCEPT ![pos] = last_rank]))

\* lines 55-60: the loop over enumerate(order, start=1)
RECURSIVE RankLoop(_, _, _, _, _, _)
RankLoop(s, order, idx, last_score, last_rank, ranks) ==
    IF idx > Len(order) THEN ranks
    ELSE Bind(order[idx], LAMBDA pos :
         IF IsNone(last_score) \/ s[pos] < Val(last_score)
         THEN RankLoop(s, order, idx + 1, Some(s[pos]), idx,
                       [ranks EXCEPT ![pos] = idx])
         ELSE RankLoop(s, order, idx + 1, last_score, last_rank,
                       [ranks EXCEPT ![pos] = last_rank]))

\* rank_from_scores(s) with the positions in the order `order`
rank_from_scores(s, order) ==
    RankLoop(s, order, 1, None, 0, Tab(LAMBDA k : 0, Len(s)))

CallRankFromScores ==
    /\ callResult = <<"idle">>
    /\ \E order \in ArgsortDescending(callArgs[2]) :
          callResult' = <<"ranks", rank_from_scores(callArgs[2], order)>>
    /\ UNCHANGED <<selVars, runVars, greedyVars, aggVars, callArgs>>

InitRankFrom ==
    /\ n = 2
    /\ K = None
    /\ candidates = GtAll(n)
    /\ InitRun
    /\ GreedyIdle
    /\ AggIdle
    /\ callArgs \in {<<"rank_from_scores", s>> :
                        s \in UNION {[1..m -> SampleEntries] : m \in 0..MaxScoreLen}}
    /\ callResult = <<"idle">>

NextRankFrom == CallRankFromScores

SpecRankFrom == InitRankFrom /\ [][NextRankFrom]_vars

(***************************************************************************)
(* PoE-Gaussian and LSE called on a match table and on the same table with *)
(* a constant added to both scores of every filled cell (SpecShift)        *)
(***************************************************************************)
\* the constants added, in units of 1e-4
SampleShifts == {-2500, 5000}

\* the table _build_match_table_and_bias builds (line 131) when every pair
\* scores c more on both sides
ShiftTable(N, table, c) ==
    [q \in Range(N) \X Range(N) |->
        IF IsNone(table[q]) THEN None
        ELSE Some(CellScore(Val(table[q]).scoreA + c, Val(table[q]).scoreB + c))]

\* the two estimators that fix the anchor s_0
AnchoredAggregators(N, table) ==
    [lse |-> <<"ok", _lse_scores_from_table(N, table)>>,
     poe_gaussian |-> _poe_scores_from_table(N, table)]

ApplyShifted ==
    /\ callResult = <<"idle">>
    /\ callResult' =
          <<"ret", AnchoredAggregators(callArgs.N, callArgs.table),
                   AnchoredAggregators(callArgs.N,
                                       ShiftTable(callArgs.N, callArgs.table, callArgs.c))>>
    /\ UNCHANGED <<selVars, runVars, greedyVars, aggVars, callArgs>>

InitShift ==
    /\ \E N \in 2..MaxAggN : \E t \in Tables(N) : \E c \in SampleShifts :
          callArgs = [N |-> N, table |-> t, c |-> c]
    /\ callResult = <<"idle">>
    /\ n = 2
    /\ K = None
    /\ candidates = GtAll(2)
    /\ InitRun
    /\ GreedyIdle
    /\ AggIdle

NextShift == ApplyShifted

SpecShift == InitShift /\ [][NextShift]_vars

(***************************************************************************)
(* main on a fresh round folder (no pair file), every agent call           *)
(* succeeding with well-formed, consistent output (SpecFresh)              *)
(***************************************************************************)
InitFresh ==
    /\ n \in 2..MaxCand
    /\ K \in {b \in Budgets(n) :
                IF IsNone(b) THEN n * (n - 1) <= MaxPairs
                ELSE Min(Val(b), n * (n - 1)) <= MaxPairs}
    /\ candidates = GtAll(n)
    /\ pc = "select"
    /\ picked = {}
    /\ si = 0
    /\ chosen = <<>>
    /\ disk = [q \in AllPairs(n) |-> MissingFile]
    /\ roundFiles = [f \in RoundFileNames(n) |-> None]
    /\ pairs = <<>>
    /\ cur = None
    /\ has_artifacts = FALSE
    /\ has_analysis = FALSE
    /\ attempt = 0
    /\ roundAnalysis = None
    /\ run = 1
    /\ faults = 0
    /\ seen = [q \in AllPairs(n) |-> None]
    /\ attempts = [q \in AllPairs(n) |-> <<>>]
    /\ prev = None
    /\ GreedyIdle
    /\ AggIdle
    /\ CallIdle

NextFresh ==
    \/ SelectFull
    \/ SelectBudgeted
    \/ StarStep
    \/ StarEnd
    \/ GreedyStep
    \/ GreedyEnd
    \/ LoadPair
    \/ AttemptAgentsSucceed
    \/ Score
    \/ ReturnPairs
    \/ ComputeAnalysis
    \/ SaveRound
    \/ Rerun

SpecFresh == InitFresh /\ [][NextFresh]_vars

(***************************************************************************)
(* Domain/round.py: Round.pair_filename on the pairs of a round with       *)
(* unique candidate names (SpecNames).  A name is a string, modelled as    *)
(* the tuple of its characters.                                            *)
(***************************************************************************)
MaxNameLen == 2     \* characters of a candidate name
MaxNameN == 3       \* candidates of the round

\* the characters of a name: two letters, the underscore and the slash
NameChars == {"a", "b", "_", "/"}

SampleNames == UNION {[1..len -> NameChars] : len \in 1..MaxNameLen}

\* str(name).replace("/", "_")
ReplaceSlash(name) == Tab(LAMBDA k : IF name[k] = "/" THEN "_" ELSE name[k], Len(name))

\* Round.pair_filename: f"{safeA}_{safeB}.json"
pair_filename(nameA, nameB) ==
    ReplaceSlash(nameA) \o <<"_">> \o ReplaceSlash(nameB) \o <<".json">>

\* make_pairs.py line 51 for each directed pair (i, j) of the round
CallPairFilenames ==
    /\ callResult = <<"idle">>
    /\ callResult' =
          <<"files", [q \in AllPairs(Len(callArgs)) |->
                        pair_filename(callArgs[q[1] + 1], callArgs[q[2] + 1])]>>
    /\ UNCHANGED <<selVars, runVars, greedyVars, aggVars, callArgs>>

\* rnd.candidates with unique names
InitNames ==
    /\ \E N \in 2..MaxNameN :
          callArgs \in {names \in [1..N -> SampleNames] :
                           \A a, b \in 1..N : a # b => names[a] # names[b]}
    /\ callResult = <<"idle">>
    /\ n = 2
    /\ K = None
    /\ candidates = GtAll(2)
    /\ InitRun
    /\ GreedyIdle
    /\ AggIdle

NextNames == CallPairFilenames

SpecNames == InitNames /\ [][NextNames]_vars

(***************************************************************************)
(* Properties                                                              *)
(***************************************************************************)
\* the pair file exists, parses, and holds artifacts that validate and pass
\* is_complete()
FileComplete(f) ==
    /\ f # None
    /\ f[1] = "json"
    /\ f[2][1] = "obj"
    /\ is_complete(ValidateArtifacts(f[2][2]))

\* ensure_pairs has returned in this invocation
Returned == pc \in {"analyze", "save", "done", "crashed"}

\* every chosen pair's file, as this invocation found it, was complete
AllChosenComplete == \A k \in 1..Len(chosen) : FileComplete(seen[chosen[k]])

\* the Judge was called for pair q in this invocation
JudgeCalled(q) == attempts[q] # <<>>

\* C1: when every chosen pair's file already holds artifacts that validate
\* and pass is_complete(), an invocation of ensure_pairs has called
\* Pair.compare for no pair by the time it returns.
C1_ResumeNoJudgeCalls ==
    (Returned /\ AllChosenComplete) => \A q \in DOMAIN attempts : ~JudgeCalled(q)

C1_Witness ==
    /\ pc = "analyze"
    /\ Len(chosen) >= 2
    /\ AllChosenComplete
    /\ \A q \in DOMAIN attempts : ~JudgeCalled(q)

\* C2: a pair whose two Judge attempts both threw fills no cell of the match
\* table of either view, whatever its file held before the run.
C2_FailedPairFillsNoCell ==
    pc = "analyze" =>
        \A k \in 1..Len(pairs) :
            attempts[chosen[k]] = <<"raised", "raised">> =>
                \A mode \in {"initial", "reply"} :
                    IsNone(_build_match_table_and_bias(n, pairs, mode)[1][chosen[k]])

C4_ResumeOnlyFromValidState ==
    /\ pc \in {"attempt", "score"} =>
          /\ has_artifacts <=> FileComplete(seen[CurPair])
          /\ ~has_artifacts => (pc = "attempt" \/ JudgeCalled(CurPair))
    /\ \A k \in 1..Len(pairs) :
          ~FileComplete(seen[chosen[k]]) => JudgeCalled(chosen[k])

C4_Witness ==
    /\ pc = "score"
    /\ seen[CurPair] = JsonFile(Obj(DumpArtifacts(ArtPartial)), Absent)
    /\ ~has_artifacts
    /\ JudgeCalled(CurPair)

\* C5: on every match table, each of the three aggregators returns a score
\* vector (none raises).
C5_AggregatorsNeverRaise ==
    aggResult[1] = "ret" =>
        /\ aggResult[2].sum_all[1] = "ok"
        /\ aggResult[2].lse[1] = "ok"
        /\ aggResult[2].poe_gaussian[1] = "ok"

\* every candidate index appears in a picked pair
StarCovers == \A c \in Range(n) : \E p \in picked : p[1] = c \/ p[2] = c

C7_BudgetedExactlyK ==
    (~do_full /\ pc \notin {"select", "star", "greedy"}) =>
        /\ Len(chosen) = Val(K)
        /\ Cardinality(SeqToSet(chosen)) = Val(K)
        /\ SeqToSet(chosen) \subseteq AllPairs(n)
        /\ Returned =>
              /\ Len(pairs) = Val(K)
              /\ \A k \in 1..Len(pairs) : <<pairs[k].nameA, pairs[k].nameB>> = chosen[k]

C7_Witness ==
    /\ pc = "analyze"
    /\ n = 3
    /\ K = Some(3)
    /\ Len(pairs) = 3

\* C8: when K is None or K >= n(n-1), ensure_pairs chooses exactly n(n-1)
\* directed pairs: each (i, j) with i # j once, and no (i, i).
C8_FullMatrix ==
    (do_full /\ pc = "loop") =>
        /\ Len(chosen) = n * (n - 1)
        /\ SeqToSet(chosen) = AllPairs(n)
        /\ \A k \in 1..Len(chosen) : chosen[k][1] # chosen[k][2]

C8_Witness ==
    /\ pc = "loop"
    /\ n = 4
    /\ K = Some(12)
    /\ Len(chosen) = 12

\* C9: next_pair_greedy returns None exactly when chosen holds all n(n-1)
\* ordered pairs, and otherwise a pair (i, j), i # j, that is not in chosen.
C9_GreedyReturnsFreshPair ==
    gresult[1] = "ret" =>
        /\ IsNone(gresult[2]) <=> gchosen = AllPairs(gn)
        /\ ~IsNone(gresult[2]) => Val(gresult[2]) \in AllPairs(gn) \ gchosen

C9_Witness ==
    /\ gresult[1] = "ret"
    /\ gn = 3
    /\ Cardinality(gchosen) = 5
    /\ ~IsNone(gresult[2])
    /\ Val(gresult[2]) \notin gchosen

\* C10: when the previous invocation saved its round and every chosen pair's
\* file holds complete artifacts, this invocation's compute_round_analysis
\* returns the RoundAnalysis of the previous one.
C10_ResumeSameAnalysis ==
    (run >= 2 /\ ~IsNone(prev) /\ AllChosenComplete
        /\ pc \in {"save", "done", "crashed"}) => roundAnalysis = prev

C10_Witness ==
    /\ run = 2
    /\ pc = "done"
    /\ ~IsNone(prev)
    /\ AllChosenComplete
    /\ Len(chosen) >= 2
    /\ roundAnalysis = prev
    /\ \E k \in 1..Len(chosen) : seen[chosen[k]][2][2].moderator_question_for_A # <<>>

\* some attempt on pair q returned in this invocation
JudgeReturned(q) == \E a \in 1..Len(attempts[q]) : attempts[q][a] = "returned"

SideLengthsOK(questions, answers, qaReasons, qaCrits) ==
    /\ Len(questions) = Len(answers)
    /\ Len(qaReasons) = Len(answers)
    /\ Len(answers) = Len(qaCrits)

\* a reason group as the specification accepts it
StatedGroup(reasons, crits) ==
    Len(reasons) = Len(crits) \/ (reasons = <<"None">> /\ crits = <<>>)

StatedComplete(art) ==
    /\ StatedGroup(art.reason_list_init_A, art.CRIT_scores_init_A)
    /\ StatedGroup(art.reason_list_init_B, art.CRIT_scores_init_B)
    /\ SideLengthsOK(art.moderator_question_for_A, art.answer_list_A,
                     art.reason_list_QA_A, art.CRIT_scores_QA_A)
    /\ SideLengthsOK(art.moderator_question_for_B, art.answer_list_B,
                     art.reason_list_QA_B, art.CRIT_scores_QA_B)
    /\ \A k \in 1..Min(Len(art.reason_list_QA_A), Len(art.CRIT_scores_QA_A)) :
          StatedGroup(art.reason_list_QA_A[k], art.CRIT_scores_QA_A[k])
    /\ \A k \in 1..Min(Len(art.reason_list_QA_B), Len(art.CRIT_scores_QA_B)) :
          StatedGroup(art.reason_list_QA_B[k], art.CRIT_scores_QA_B[k])

\* a reason group with the sentinel the code accepts: a non-empty list whose
\* entries all read "none" once trimmed and lower-cased
SentinelGroup(reasons, crits) ==
    \/ Len(reasons) = Len(crits)
    \/ /\ reasons # <<>>
       /\ \A k \in 1..Len(reasons) : reasons[k] \in {"None", " none "}
       /\ crits = <<>>

SentinelComplete(art) ==
    /\ SentinelGroup(art.reason_list_init_A, art.CRIT_scores_init_A)
    /\ SentinelGroup(art.reason_list_init_B, art.CRIT_scores_init_B)
    /\ SideLengthsOK(art.moderator_question_for_A, art.answer_list_A,
                     art.reason_list_QA_A, art.CRIT_scores_QA_A)
    /\ SideLengthsOK(art.moderator_question_for_B, art.answer_list_B,
                     art.reason_list_QA_B, art.CRIT_scores_QA_B)
    /\ \A k \in 1..Min(Len(art.reason_list_QA_A), Len(art.CRIT_scores_QA_A)) :
          SentinelGroup(art.reason_list_QA_A[k], art.CRIT_scores_QA_A[k])
    /\ \A k \in 1..Min(Len(art.reason_list_QA_B), Len(art.CRIT_scores_QA_B)) :
          SentinelGroup(art.reason_list_QA_B[k], art.CRIT_scores_QA_B[k])

\* C12, as the specification states it: is_complete() returns True exactly
\* when every reason group has as many scores as reasons or is ["None"]
\* with no score, each side has as many answers as questions, and each
\* side's QA reasons, answers and QA scores have the same length.
C12_IsCompleteExact_AsStated ==
    callResult[1] = "ret" => (callResult[2] <=> StatedComplete(callArgs))

\* C12: is_complete() returns (it never raises), and it returns True exactly
\* when both initial arguments are present and not blank, every reason group
\* has as many scores as reasons or is a non-empty list of "none" entries
\* (trimmed, any case) with no score, each side has as many answers as
\* questions, and each side's QA reasons, answers and QA scores have the
\* same length.
C12_IsCompleteExact ==
    callResult[1] = "ret" =>
        (callResult[2] <=>
            /\ ~IsNone(callArgs.Init_ArgumentA) /\ Val(callArgs.Init_ArgumentA) # " "
            /\ ~IsNone(callArgs.Init_ArgumentB) /\ Val(callArgs.Init_ArgumentB) # " "
            /\ SentinelComplete(callArgs))

C12_Witness ==
    /\ callResult = <<"ret", TRUE>>
    /\ callArgs.reason_list_init_A = <<" none ", "None">>
    /\ callArgs.CRIT_scores_init_A = <<>>
    /\ callArgs.reason_list_QA_A = <<<<"None">>>>
    /\ callArgs.CRIT_scores_QA_A = <<<<>>>>

\* the k-th pair ensure_pairs returned carries an analysis: the comparison
\* of chosen[k] was run and scored
Scored(k) == ~IsNone(pairs[k].analysis)

RECURSIVE BiasOfCells(_, _)
BiasOfCells(table, cells) ==
    IF cells = {} THEN 0
    ELSE LET q == CHOOSE c \in cells : TRUE
         IN  (IF IsNone(table[q]) THEN 0 ELSE Val(table[q]).scoreA - Val(table[q]).scoreB)
             + BiasOfCells(table, cells \ {q})

\* the bias of a view is the sum over the filled cells of its table
BiasMatchesTable(res) == res[2] = BiasOfCells(res[1], DOMAIN res[1])

\* no two pairs of the list that fill a cell fill the same one
OnePairPerCell(pairList) ==
    \A k1, k2 \in 1..Len(pairList) :
        (/\ k1 # k2
         /\ ~IsNone(pairList[k1].analysis) /\ ~IsNone(pairList[k2].analysis)
         /\ pairList[k1].nameA # pairList[k1].nameB)
        => <<pairList[k1].nameA, pairList[k1].nameB>>
               # <<pairList[k2].nameA, pairList[k2].nameB>>

RECURSIVE GCD(_, _)
GCD(a, b) == IF b = 0 THEN a ELSE GCD(b, a % b)

\* the sign and the square, in lowest terms, of cov / sqrt(vx * vy)
RhoValue(rho) ==
    IF rho = Nan THEN Nan
    ELSE LET g == GCD(rho[2] * rho[2], rho[3] * rho[4])
         IN  <<IF rho[2] > 0 THEN 1 ELSE IF rho[2] < 0 THEN -1 ELSE 0,
               (rho[2] * rho[2]) \div g, (rho[3] * rho[4]) \div g>>

\* Pearson's correlation of the ground-truth ranks as given and the
\* average-tie ranks of the scores in descending order
RhoOfGivenRanks(cands, scores) ==
    Bind(Common(cands), LAMBDA cm :
        Pearson(cm, LAMBDA c : Val(cands[c + 1].gt_rank),
                    LAMBDA c : Rank2(cm, scores, c)))

\* C15: for at least 3 common candidates, the reported Spearman rho equals
\* Pearson's correlation between the ground-truth ranks exactly as given (not
\* re-ranked) and the average-tie ranks of the inferred scores in descending
\* order.
C15_RhoIsPearsonOfGivenRanks ==
    (callResult[1] = "ret" /\ Cardinality(Common(callArgs.cands)) >= 3) =>
        RhoValue(callResult[2].spearman_rho)
            = RhoValue(RhoOfGivenRanks(callArgs.cands, callArgs.scores))

\* C16: _rank_result_from_scores returns (it does not raise).  With fewer
\* than 3 candidates that have a ground-truth rank and a score, rho and p are
\* NaN and the breakdown is empty; with 3 or more, the breakdown holds
\* exactly those candidates.
C16_FewCommonGivesNaN ==
    callResult[1] = "ret" =>
        IF Cardinality(Common(callArgs.cands)) < 3
        THEN /\ callResult[2].spearman_rho = Nan
             /\ callResult[2].p_value = Nan
             /\ DOMAIN callResult[2].rank_list = {}
        ELSE DOMAIN callResult[2].rank_list = Common(callArgs.cands)

C16_Witness ==
    /\ callResult[1] = "ret"
    /\ Len(callArgs.cands) = 4
    /\ Common(callArgs.cands) = {0, 3}
    /\ callResult[2].spearman_rho = Nan
    /\ callResult[2].p_value = Nan
    /\ DOMAIN callResult[2].rank_list = {}

\* three of four candidates are common: the breakdown holds those three
C16_WitnessThree ==
    /\ callResult[1] = "ret"
    /\ Common(callArgs.cands) = {0, 1, 3}
    /\ DOMAIN callResult[2].rank_list = {0, 1, 3}
    /\ callResult[2].spearman_rho # Nan

\* every off-diagonal cell is filled and gap(i, j) = -gap(j, i)
FullAntiSymmetric(N, table) ==
    \A q \in AllPairs(N) :
        /\ ~IsNone(table[q])
        /\ ~IsNone(table[<<q[2], q[1]>>])
        /\ Val(table[q]).gap = 0 - Val(table[<<q[2], q[1]>>]).gap

\* C17, as the specification states it: on a fully connected anti-symmetric
\* table, Sum and LSE order every two candidates the same way: i is above j,
\* below j or level with j under Sum exactly when it is so under LSE.
C17_SumAndLseSameRanking_AsStated ==
    (aggResult[1] = "ret" /\ FullAntiSymmetric(aggTable.N, aggTable.table)) =>
        \A i, j \in 1..aggTable.N :
            PGreater(aggResult[2].sum_all[2].num[i], aggResult[2].sum_all[2].num[j])
            <=> PGreater(aggResult[2].lse[2].num[i], aggResult[2].lse[2].num[j])

\* C17: on a fully connected anti-symmetric table, Sum and LSE order every
\* two candidates the same way up to differences of the order of the ridge:
\* i is above j under Sum exactly when the LSE score of i exceeds that of j by
\* more than a multiple of the ridge (the scores differ at ridge 0).
C17_SumAndLseSameRanking ==
    (aggResult[1] = "ret" /\ FullAntiSymmetric(aggTable.N, aggTable.table)) =>
        /\ aggResult[2].lse[2].den[1] > 0
        /\ \A i, j \in 1..aggTable.N :
              aggResult[2].sum_all[2].num[i][1] > aggResult[2].sum_all[2].num[j][1]
              <=> aggResult[2].lse[2].num[i][1] > aggResult[2].lse[2].num[j][1]

C17_Witness ==
    /\ aggResult[1] = "ret"
    /\ aggTable.N = 3
    /\ FullAntiSymmetric(aggTable.N, aggTable.table)
    /\ aggResult[2].sum_all[2].num[1] = aggResult[2].sum_all[2].num[2]
    /\ PGreater(aggResult[2].sum_all[2].num[1], aggResult[2].sum_all[2].num[3])
    /\ PGreater(aggResult[2].lse[2].num[2], aggResult[2].lse[2].num[1])
    /\ aggResult[2].lse[2].num[1][1] > aggResult[2].lse[2].num[3][1]

\* the sum of the gaps of the filled cells among `cells`
RECURSIVE GapSum(_, _)
GapSum(table, cells) ==
    IF cells = {} THEN 0
    ELSE LET q == CHOOSE c \in cells : TRUE
         IN  (IF IsNone(table[q]) THEN 0 ELSE Val(table[q]).gap)
             + GapSum(table, cells \ {q})

\* sum_all of candidate c and of all candidates, as the claim states them
SumAllAsStated(c) ==
    GapSum(aggTable.table, {q \in AllPairs(aggTable.N) : q[1] = c})
    - GapSum(aggTable.table, {q \in AllPairs(aggTable.N) : q[2] = c})

SumAllTotal == SumSeq(Tab(LAMBDA r : aggResult[2].sum_all[2].num[r][1], aggTable.N))

\* C18: for every table and every candidate c, sum_all[c] is the sum of gap
\* over the filled cells (c, j) minus the sum of gap over the filled cells
\* (i, c); the scores of all candidates add up to zero; the call leaves the
\* table as it was.
C18_SumAggregator ==
    /\ [](aggResult[1] = "ret" =>
            /\ \A c \in Range(aggTable.N) :
                  aggResult[2].sum_all[2].num[c + 1] = <<SumAllAsStated(c)>>
            /\ aggResult[2].sum_all[2].den = <<1>>
            /\ SumAllTotal = 0)
    /\ [][aggTable' = aggTable]_vars

C18_Witness ==
    /\ aggResult[1] = "ret"
    /\ aggTable.N = 3
    /\ IsNone(aggTable.table[<<0, 1>>])
    /\ aggResult[2].sum_all[2].num = <<<<5000>>, <<-7500>>, <<2500>>>>

\* list(chosen) in the reverse of the order SortPairs gives it
ReversedPairs(m, S) ==
    LET s == SortPairs(m, S) IN Tab(LAMBDA k : s[Len(s) + 1 - k], Len(s))

\* the value of pair q on the matrix of this call
CallVal(q) == GreedyVal(build_A_inv(gn, SortPairs(gn, gchosen)), q[1], q[2])

\* C19: the pair next_pair_greedy returns is not in chosen and attains the
\* maximum of A_inv[i,i] + A_inv[j,j] - 2 A_inv[i,j] over the pairs not in
\* chosen; no pair before it in the iteration order (ascending i, then j)
\* attains that maximum; and the result does not depend on the order in which
\* list(chosen) enumerates the set.
C19_GreedyArgmaxFirst ==
    (gresult[1] = "ret" /\ ~IsNone(gresult[2])) =>
        LET best == Val(gresult[2])
        IN  /\ best \in AllPairs(gn) \ gchosen
            /\ \A q \in AllPairs(gn) \ gchosen :
                  /\ ~PGreater(CallVal(q), CallVal(best))
                  /\ CallVal(q) = CallVal(best) => PairRank(gn, best) <= PairRank(gn, q)
            /\ gresult[2] = GreedyScan(gn, gchosen,
                                       build_A_inv(gn, ReversedPairs(gn, gchosen)), 0, None)

C19_Witness ==
    /\ gresult[1] = "ret"
    /\ gn = 3
    /\ gchosen = {<<1, 0>>, <<2, 0>>}
    /\ ~IsNone(gresult[2])
    /\ \E q \in AllPairs(gn) \ gchosen :
          /\ q # Val(gresult[2])
          /\ CallVal(q) = CallVal(Val(gresult[2]))
          /\ PairRank(gn, Val(gresult[2])) < PairRank(gn, q)
    /\ \E q \in AllPairs(gn) \ gchosen : PGreater(CallVal(Val(gresult[2])), CallVal(q))

\* the star pairs to candidate 0
StarPairs == {<<i, 0>> : i \in 1..(n - 1)}

\* the filled cells of a table
FilledCells(table) == {q \in DOMAIN table : ~IsNone(table[q])}

\* C20: with 4 candidates and K = 6, the star phase picks (1,0), (2,0),
\* (3,0), the greedy steps add one pair at a time to them, and the chosen
\* list holds those 3 star pairs and 3 further distinct pairs; when every
\* chosen pair is scored, the match table of each view has exactly the 6
\* chosen cells filled, and the diagonal and the other 6 off-diagonal cells
\* are None.
C20_FourCandidatesBudgetSix ==
    (n = 4 /\ K = Some(6)) =>
        /\ pc = "star" => picked \subseteq StarPairs
        /\ pc = "greedy" =>
              /\ StarPairs \subseteq picked
              /\ picked \subseteq AllPairs(n)
              /\ Cardinality(picked) <= 6
        /\ pc \notin {"select", "star", "greedy"} =>
              /\ Len(chosen) = 6
              /\ StarPairs \subseteq SeqToSet(chosen)
              /\ Cardinality(SeqToSet(chosen) \ StarPairs) = 3
              /\ SeqToSet(chosen) \subseteq AllPairs(n)
        /\ (pc = "analyze" /\ \A k \in 1..Len(pairs) : Scored(k)) =>
              \A mode \in Modes :
                  LET table == _build_match_table_and_bias(n, pairs, mode)[1]
                  IN  /\ FilledCells(table) = SeqToSet(chosen)
                      /\ Cardinality(FilledCells(table)) = 6
                      /\ Cardinality(AllPairs(n) \ FilledCells(table)) = 6

C20_Witness ==
    /\ n = 4
    /\ K = Some(6)
    /\ pc = "analyze"
    /\ AllChosenComplete
    /\ \A k \in 1..Len(pairs) : Scored(k)
    /\ Cardinality(FilledCells(_build_match_table_and_bias(n, pairs, "reply")[1])) = 6

(***************************************************************************)
(* C21: when Round.save has completed, the round file is named             *)
(* round_K<k>.json with k the number of directed comparisons of the round  *)
(* (the length of the list ensure_pairs returned), and round.json holds    *)
(* the same content.                                                       *)
(***************************************************************************)
C21_RoundFileNamedAfterPairsUsed ==
    pc = "done" =>
        /\ roundFiles[<<"round.json">>] = Some(RoundDump)
        /\ Len(pairs) > 0 => roundFiles[<<"round_K", Len(pairs)>>] = Some(RoundDump)

(***************************************************************************)
(* C22: a pair whose file held complete artifacts and a schema-valid       *)
(* analysis reaches the scoring step of ensure_pairs with has_artifacts    *)
(* and has_analysis both true, so that lines 89-92 neither call            *)
(* run_analysis nor write the pair file.                                   *)
(***************************************************************************)
C22_AnalyzedPairNotRescored ==
    (pc = "score" /\ FileComplete(seen[CurPair]) /\ seen[CurPair][3][1] = "obj")
        => (has_artifacts /\ has_analysis)

(***************************************************************************)
(* C23: a write of a pair file that fails inside ensure_pairs (save_json   *)
(* at line 78 or line 92) ends the invocation: the step in which the write *)
(* fails leaves the pair loop for the crashed state.                       *)
(***************************************************************************)
C23_PairWriteFailureHalts ==
    [][(pc \in {"attempt", "score"} /\ faults' # faults) => pc' = "crashed"]_vars

\* pair q has resolved in this invocation: its file was loaded with
\* complete artifacts, or the Judge returned, or both attempts were used
Resolved(q) ==
    /\ seen[q] # None
    /\ \/ FileComplete(seen[q])
       \/ Len(attempts[q]) = MaxAttempts
       \/ (attempts[q] # <<>> /\ attempts[q][Len(attempts[q])] = "returned")

\* what a step has put into round file f
Written(f) == roundFiles'[f]

(***************************************************************************)
(* C24: a step writes a round file only from the save position of main,    *)
(* when the list of pairs holds one Pair for each chosen pair, every       *)
(* chosen pair has resolved, and rnd.analysis is the result of             *)
(* compute_round_analysis on the whole list; what the step writes is the   *)
(* dump of that round (or a file cut short by a failing write), never an   *)
(* analysis of a part of the pairs.                                        *)
(***************************************************************************)
C24_NoPartialAggregate ==
    [][roundFiles' # roundFiles =>
          /\ pc = "save"
          /\ Len(pairs) = Len(chosen)
          /\ \A k \in 1..Len(chosen) :
                /\ Resolved(chosen[k])
                /\ <<pairs[k].nameA, pairs[k].nameB>> = chosen[k]
          /\ roundAnalysis = Some(compute_round_analysis(candidates, pairs)[2])
          /\ \A f \in DOMAIN roundFiles :
                Written(f) # roundFiles[f] =>
                    Written(f) \in {Some(RoundDump), Some(TruncatedRound)}]_vars

\* a round saved whole, one of whose pairs was given up after two attempts
\* and another loaded from a complete file
C24_Witness ==
    /\ pc = "done"
    /\ roundFiles[<<"round.json">>] = Some(RoundDump)
    /\ roundFiles[round_meta_filename(K, pairs)] = Some(RoundDump)
    /\ \E q \in SeqToSet(chosen) : Len(attempts[q]) = MaxAttempts
    /\ \E q \in SeqToSet(chosen) : FileComplete(seen[q])

(***************************************************************************)
(* C25: for every score vector s, rank_from_scores(s) has the length of s  *)
(* and gives entry k the rank 1 + the number of entries strictly greater   *)
(* than s[k], whatever order the sort leaves tied entries in.              *)
(***************************************************************************)
C25_CompetitionRanking ==
    callResult[1] = "ranks" =>
        /\ Len(callResult[2]) = Len(callArgs[2])
        /\ \A k \in 1..Len(callArgs[2]) :
              callResult[2][k] =
                  1 + Cardinality({e \in 1..Len(callArgs[2]) :
                                       callArgs[2][e] > callArgs[2][k]})

\* two entries tied for the first rank and a third ranked 3, with the tied
\* entries apart in the vector
C25_Witness ==
    /\ callArgs = <<"rank_from_scores", <<2, 0, 2, 1>>>>
    /\ callResult = <<"ranks", <<1, 4, 1, 3>>>>

\* the estimated score of i minus that of j, as a numerator over the
\* denominator of the vector
ScoreDifference(sv, i, j) == <<PSub(sv.num[i + 1], sv.num[j + 1]), sv.den>>

\* an estimator's result r on the table and rs on the shifted table give
\* every two non-anchor candidates the same difference
SameDifferences(N, r, rs) ==
    /\ r[1] = rs[1]
    /\ r[1] = "ok" =>
          \A i, j \in 1..(N - 1) :
              ScoreDifference(r[2], i, j) = ScoreDifference(rs[2], i, j)

(***************************************************************************)
(* C26: adding one constant to scoreA and scoreB of every filled cell of a *)
(* match table leaves, for LSE and for PoE-Gaussian, the difference        *)
(* between the estimated scores of any two non-anchor candidates as it     *)
(* was (and PoE-Gaussian fails on the one table exactly when it fails on   *)
(* the other).                                                             *)
(***************************************************************************)
C26_AnchorInvariant ==
    callResult[1] = "ret" =>
        /\ SameDifferences(callArgs.N, callResult[2].lse, callResult[3].lse)
        /\ SameDifferences(callArgs.N, callResult[2].poe_gaussian,
                           callResult[3].poe_gaussian)

\* three candidates, all connected, the two non-anchor candidates with
\* different estimated scores under both estimators
C26_Witness ==
    /\ callResult[1] = "ret"
    /\ callArgs.N = 3
    /\ callArgs.table[<<1, 0>>] # None
    /\ callArgs.table[<<2, 0>>] # None
    /\ callArgs.table[<<1, 2>>] # None
    /\ callResult[3].poe_gaussian[1] = "ok"
    /\ callResult[3].poe_gaussian[2].num[2] # callResult[3].poe_gaussian[2].num[3]
    /\ callResult[3].lse[2].num[2] # callResult[3].lse[2].num[3]

\* the score vector sv has N entries, all of them 0
ZeroVector(N, sv) ==
    /\ Len(sv.num) = N
    /\ \A r \in 1..N : \A k \in 1..Len(sv.num[r]) : sv.num[r][k] = 0
    /\ \E k \in 1..Len(sv.den) : sv.den[k] # 0

\* no cell of the match table is filled
NoFilledCell == \A q \in DOMAIN aggTable.table : IsNone(aggTable.table[q])

(***************************************************************************)
(* C27: on a match table of N candidates without a filled cell, sum_all,   *)
(* PoE-Gaussian and LSE each return N scores, all of them 0, and none of   *)
(* them raises.                                                            *)
(***************************************************************************)
C27_ZeroObservations ==
    (aggResult[1] = "ret" /\ NoFilledCell) =>
        /\ ZeroVector(aggTable.N, aggResult[2].sum_all[2])
        /\ aggResult[2].lse[1] = "ok"
        /\ ZeroVector(aggTable.N, aggResult[2].lse[2])
        /\ aggResult[2].poe_gaussian[1] = "ok"
        /\ ZeroVector(aggTable.N, aggResult[2].poe_gaussian[2])

\* the aggregators have returned on the empty table of three candidates
C27_Witness ==
    /\ aggResult[1] = "ret"
    /\ aggTable.N = 3
    /\ NoFilledCell

(***************************************************************************)
(* C28: when ensure_pairs has returned, every returned Pair that carries   *)
(* an analysis also carries artifacts that pass is_complete(): a pair      *)
(* whose artifacts are missing or incomplete has no analysis.              *)
(***************************************************************************)
C28_AnalyzedOnlyAfterComplete ==
    pc = "analyze" =>
        \A k \in 1..Len(pairs) :
            ~IsNone(pairs[k].analysis) =>
                (~IsNone(pairs[k].artifacts) /\ is_complete(Val(pairs[k].artifacts)))

(***************************************************************************)
(* C29: on a fresh round folder, with every agent call succeeding with     *)
(* well-formed, consistent output, each pair that found no file has, when  *)
(* ensure_pairs returns, a first compare call that returned, complete      *)
(* artifacts, and an analysis.                                             *)
(***************************************************************************)
C29_FreshPairProgress ==
    pc = "analyze" =>
        \A k \in 1..Len(pairs) :
            seen[chosen[k]] = MissingFile =>
                /\ attempts[chosen[k]] # <<>>
                /\ attempts[chosen[k]][1] = "returned"
                /\ ~IsNone(pairs[k].artifacts)
                /\ is_complete(Val(pairs[k].artifacts))
                /\ ~IsNone(pairs[k].analysis)

(***************************************************************************)
(* C30: in a round with unique candidate names, Round.pair_filename gives  *)
(* two different directed pairs two different file names.                  *)
(***************************************************************************)
C30_PairFilesDistinct ==
    callResult[1] = "files" =>
        \A p, q \in DOMAIN callResult[2] : p # q => callResult[2][p] # callResult[2][q]

====
